---- MODULE Spec2Model ----
(***************************************************************************)
(* R-60 bot: the per-message processing pipeline of main.py (R60Bot) over  *)
(* the Gmail, Sheets and Drive services and the Excel parser.              *)
(*                                                                         *)
(* One run of the bot is a sequential process: initialize_services,        *)
(* search_emails, then for each message the flow of _process_single_email  *)
(* and the handler that process_emails selects for the exception raised.   *)
(* Every call to a Google API may fail (HttpError wrapped into             *)
(* GoogleAPIError, or any other exception of the client library).          *)
(*                                                                         *)
(* Spec is the run of the bot over abstract attachments; ParserSpec is     *)
(* parse_r60_form over workbooks given cell by cell.                       *)
(***************************************************************************)
EXTENDS Integers, Sequences, FiniteSets, TLC

\* ------------------------------------------------------------ bounds
NumMessages == 2          \* messages in the mailbox
MaxRuns == 2              \* invocations of the bot (run.py / main)
MaxFailures == 2          \* failing external calls over the whole behaviour

\* ------------------------------------------------- program constants
MAX_EMAILS_PER_RUN == 10

LABEL_PROCESSED == "R60/Procesado"
LABEL_ERROR == "R60/Error"
LABEL_DUPLICATE == "R60/Duplicado"
StatusLabels == {LABEL_PROCESSED, LABEL_ERROR, LABEL_DUPLICATE}

\* The exception classes of src/utils/exceptions.py that reach process_emails,
\* and "Exception" for every exception outside that hierarchy.
ValidationErrors ==
    {"CampoObligatorioError", "TipoFormularioNoReconocidoError",
     "ArchivoExcelInvalidoError", "AdjuntoNoEncontradoError"}
ApiFailures == {"GoogleAPIError", "Exception"}

Msgs == 1..NumMessages
None == 0

\* ------------------------------------------------------- attachments
\* What a message carries: whether a part named *.xlsx with an attachment
\* id exists, whether openpyxl can load it, the variant its sheet is
\* classified as ("" when no keyword matches), the two mandatory header
\* cells and the number of item rows before the first empty key cell.
Attachment(xlsx, loadable, tipo, numero, solicitante, nitems) ==
    [xlsx |-> xlsx, loadable |-> loadable, tipo_formulario |-> tipo,
     numero_formulario |-> numero, solicitante |-> solicitante,
     nitems |-> nitems]

NoXlsxPart == Attachment(FALSE, FALSE, "", "", "", 0)
CorruptFile == Attachment(TRUE, FALSE, "", "", "", 0)
UnknownForm == Attachment(TRUE, TRUE, "", "R60-001", "Jane Doe", 1)
NoNumberForm == Attachment(TRUE, TRUE, "COMPRAS", "", "Jane Doe", 1)
NoItemsForm == Attachment(TRUE, TRUE, "COMPRAS", "R60-001", "Jane Doe", 0)
FormA == Attachment(TRUE, TRUE, "COMPRAS", "R60-001", "Jane Doe", 2)
FormB == Attachment(TRUE, TRUE, "SERVICIOS", "R60-002", "John Roe", 1)

Attachments ==
    {NoXlsxPart, CorruptFile, UnknownForm, NoNumberForm, NoItemsForm, FormA, FormB}

NoForm == [numero_formulario |-> "", tipo_formulario |-> "", solicitante |-> "",
           nitems |-> 0, archivo_original |-> ""]

SHEET_HEADER_ROW ==
    [numero_formulario |-> "Nº Formulario", tipo_formulario |-> "Tipo Formulario",
     solicitante |-> "Solicitante", item |-> 0, archivo_original |-> "Archivo Original"]

VARIABLES
    attachment,      \* Msgs -> Attachments: the content of the mailbox
    labels,          \* Msgs -> set of label names on the message
    unread,          \* Msgs -> BOOLEAN: the UNREAD system label
    labelNames,      \* label names that exist in the Gmail account
    sheet,           \* rows of the spreadsheet, the header row first
    driveFolders,    \* how many of R60_PROCESSED / YYYY / MM exist
    driveFiles,      \* files uploaded to Drive, in upload order
    tempFiles,       \* files that exist under TEMP_DIR
    openWorkbooks,   \* workbooks loaded by a parser and not closed
    run,             \* number of runs started
    pc,              \* position of the run
    queue,           \* messages returned by search_emails
    i,               \* 1-based index of the message being processed
    temp_file,       \* local of _process_single_email
    form_data,       \* local of _process_single_email
    exc,             \* exception in flight at the per-message boundary
    processed_count, error_count, duplicate_count,
    critical,        \* run() caught an exception outside the loop
    exit_code,       \* what run() returned last (-1: nothing yet)
    failures,        \* external calls that failed so far
    attempts,        \* history: messages entered by the loop in this run
    att,             \* history: <<step, result>> of the current message
    workbook,        \* the workbook of the file an ExcelParser was made for
    parser,          \* the ExcelParser: its attributes and the locals of parse
    rows_added,      \* local of _process_single_email: what append_rows returned
    parts,           \* payload.parts of the message download_attachment reads
    procs,           \* the locals of each of several runs working at once
    folders          \* the folders of the Drive, in creation order

vars == <<attachment, labels, unread, labelNames, sheet, driveFolders,
          driveFiles, tempFiles, openWorkbooks, run, pc, queue, i, temp_file,
          form_data, exc, processed_count, error_count, duplicate_count,
          critical, exit_code, failures, attempts, att, workbook, parser,
          rows_added, parts, procs, folders>>

mailboxVars == <<labels, unread, labelNames>>
storeVars == <<sheet, driveFolders, driveFiles>>
localVars == <<tempFiles, openWorkbooks, temp_file, form_data>>
countVars == <<processed_count, error_count, duplicate_count>>
detailVars == <<rows_added, parts, procs, folders>>
runVars == <<attachment, run, queue, i, critical, exit_code, attempts, workbook,
            parser, detailVars>>

message_id == queue[i]

Logged(step, result) == Append(att, <<step, result>>)

CanFail == failures < MaxFailures

Init ==
    /\ attachment \in [Msgs -> Attachments]
    /\ labels = [m \in Msgs |-> {}]
    /\ unread = [m \in Msgs |-> TRUE]
    /\ labelNames = {}
    /\ sheet = <<>>
    /\ driveFolders = 0
    /\ driveFiles = <<>>
    /\ tempFiles = {}
    /\ openWorkbooks = {}
    /\ run = 0
    /\ pc = "idle"
    /\ queue = <<>>
    /\ i = 0
    /\ temp_file = None
    /\ form_data = NoForm
    /\ exc = "none"
    /\ processed_count = 0
    /\ error_count = 0
    /\ duplicate_count = 0
    /\ critical = FALSE
    /\ exit_code = -1
    /\ failures = 0
    /\ attempts = <<>>
    /\ att = <<>>
    /\ workbook = <<>>
    /\ parser = <<>>
    /\ rows_added = 0
    /\ folders = <<>>
    /\ parts = <<>>
    /\ procs = <<>>

\* ------------------------------------------------------ pure helpers
RECURSIVE UnreadFrom(_, _)
UnreadFrom(m, flags) ==
    IF m > NumMessages THEN <<>>
    ELSE IF flags[m] THEN <<m>> \o UnreadFrom(m + 1, flags)
    ELSE UnreadFrom(m + 1, flags)

\* GMAIL_QUERY ends in is:unread: the search returns the unread messages,
\* in the order of the mailbox, at most MAX_EMAILS_PER_RUN of them.
search_emails(flags) ==
    LET found == UnreadFrom(1, flags)
    IN IF Len(found) <= MAX_EMAILS_PER_RUN THEN found
       ELSE SubSeq(found, 1, MAX_EMAILS_PER_RUN)

\* Mutant of check_duplicate: the scan starts one row too late.
check_duplicate_from_row_3(values, form_number) ==
    \E k \in 3..Len(values) : values[k].numero_formulario = form_number

\* values[1:] of column B: the header row is skipped.
check_duplicate(values, form_number) ==
    \E k \in 2..Len(values) : values[k].numero_formulario = form_number

\* One row per item, the header fields repeated on each.
prepare_rows(fd) ==
    [k \in 1..fd.nitems |->
        [numero_formulario |-> fd.numero_formulario,
         tipo_formulario |-> fd.tipo_formulario,
         solicitante |-> fd.solicitante,
         item |-> k,
         archivo_original |-> fd.archivo_original]]

ensure_header_exists(values) ==
    IF values = <<>> THEN <<SHEET_HEADER_ROW>>
    ELSE IF values[1] # SHEET_HEADER_ROW THEN [values EXCEPT ![1] = SHEET_HEADER_ROW]
    ELSE values

\* ExcelParser.parse: the exception it raises, "none" when it returns.
ParseError(a) ==
    IF ~a.loadable THEN "ArchivoExcelInvalidoError"
    ELSE IF a.tipo_formulario = "" THEN "TipoFormularioNoReconocidoError"
    ELSE IF a.numero_formulario = "" \/ a.solicitante = "" THEN "CampoObligatorioError"
    ELSE IF a.nitems = 0 THEN "ItemsVaciosError"
    ELSE "none"

\* self.workbook.close() is the last statement before parse returns.
WorkbookLeftOpen(a) == a.loadable /\ ParseError(a) # "none"

ParseResult(a, file_name) ==
    [numero_formulario |-> a.numero_formulario,
     tipo_formulario |-> a.tipo_formulario,
     solicitante |-> a.solicitante,
     nitems |-> a.nitems,
     archivo_original |-> file_name]

\* The except clause process_emails selects for an exception.
\* No exception: the counter; FormularioDuplicadoError: _handle_duplicate; the
\* validation errors, GoogleAPIError and every other Exception (ItemsVaciosError
\* among them): _handle_error.
Handler(e) ==
    IF e = "none" THEN "count"
    ELSE IF e = "FormularioDuplicadoError" THEN "dup_details"
    ELSE IF e \in ValidationErrors THEN "err_notify"
    ELSE IF e = "GoogleAPIError" THEN "err_notify"
    ELSE "err_notify"

\* the except clause of process_emails that catches e
ExceptClause(e) ==
    IF e = "FormularioDuplicadoError" THEN "duplicate"
    ELSE IF e \in ValidationErrors THEN "validation"
    ELSE IF e = "GoogleAPIError" THEN "api"
    ELSE "unexpected"

\* the error_message _handle_error is called with, str(e) being given by the
\* class of e: str(e), or f"Error inesperado: {e}" in the last clause
error_message(e) ==
    IF ExceptClause(e) = "unexpected" THEN <<"Error inesperado: ", e>> ELSE <<e>>

\* ---------------------------------------------------------- the run
\* run(): initialize_services (ensure_header_exists) and search_emails.
StartRun ==
    /\ pc = "idle"
    /\ run < MaxRuns
    /\ run' = run + 1
    /\ sheet' = ensure_header_exists(sheet)
    /\ queue' = search_emails(unread)
    /\ processed_count' = 0
    /\ error_count' = 0
    /\ duplicate_count' = 0
    /\ critical' = FALSE
    /\ exc' = "none"
    /\ att' = <<>>
    /\ IF queue' = <<>>
       THEN /\ pc' = "done"
            /\ i' = 0
            /\ attempts' = <<>>
       ELSE /\ pc' = "fetch"
            /\ i' = 1
            /\ attempts' = <<queue'[1]>>
    /\ UNCHANGED <<attachment, workbook, parser, detailVars, mailboxVars, driveFolders, driveFiles, localVars,
                   exit_code, failures>>

\* An exception of initialize_services or search_emails reaches run()'s
\* except Exception: the loop is never entered.
StartRunFails ==
    /\ pc = "idle"
    /\ run < MaxRuns
    /\ CanFail
    /\ failures' = failures + 1
    /\ run' = run + 1
    /\ \E headerWritten \in BOOLEAN :
          sheet' = IF headerWritten THEN ensure_header_exists(sheet) ELSE sheet
    /\ queue' = <<>>
    /\ i' = 0
    /\ attempts' = <<>>
    /\ att' = <<>>
    /\ processed_count' = 0
    /\ error_count' = 0
    /\ duplicate_count' = 0
    /\ critical' = TRUE
    /\ exc' = "none"
    /\ pc' = "done"
    /\ UNCHANGED <<attachment, workbook, parser, detailVars, mailboxVars, driveFolders, driveFiles, localVars,
                   exit_code>>

\* ------------------------------------------- _process_single_email
\* 1. download_attachment: the first *.xlsx part is written under TEMP_DIR.
Download ==
    /\ pc = "fetch"
    /\ \/ /\ attachment[message_id].xlsx
          /\ tempFiles' = tempFiles \cup {message_id}
          /\ temp_file' = message_id
          /\ att' = Logged("fetch", "ok")
          /\ pc' = "parse"
          /\ UNCHANGED <<exc, failures>>
       \/ /\ ~attachment[message_id].xlsx
          /\ exc' = "AdjuntoNoEncontradoError"
          /\ att' = Logged("fetch", "fail")
          /\ pc' = "cleanup"
          /\ UNCHANGED <<tempFiles, temp_file, failures>>
       \/ /\ CanFail
          /\ failures' = failures + 1
          /\ exc' \in ApiFailures
          /\ att' = Logged("fetch", "fail")
          /\ pc' = "cleanup"
          /\ UNCHANGED <<tempFiles, temp_file>>
    /\ UNCHANGED <<mailboxVars, storeVars, openWorkbooks, form_data, countVars, runVars>>

\* 2. parse_r60_form(temp_file)
Parse ==
    /\ pc = "parse"
    /\ LET a == attachment[temp_file]
           e == ParseError(a)
       IN /\ openWorkbooks' =
                 IF WorkbookLeftOpen(a) THEN openWorkbooks \cup {temp_file}
                 ELSE openWorkbooks
          /\ IF e = "none"
             THEN /\ form_data' = ParseResult(a, "adjunto.xlsx")
                  /\ att' = Logged("parse", "ok")
                  /\ pc' = "check"
                  /\ UNCHANGED exc
             ELSE /\ exc' = e
                  /\ att' = Logged("parse", "fail")
                  /\ pc' = "cleanup"
                  /\ UNCHANGED form_data
    /\ UNCHANGED <<mailboxVars, storeVars, tempFiles, temp_file, countVars, runVars,
                   failures>>

\* Mutant of CheckDuplicate: the duplicate is found and logged, but
\* FormularioDuplicadoError is not raised and the rows are appended.
CheckDuplicate_NotRaised ==
    /\ pc = "check"
    /\ att' = Logged("check", IF check_duplicate(sheet, form_data.numero_formulario)
                              THEN "duplicate" ELSE "ok")
    /\ pc' = "append"
    /\ UNCHANGED <<mailboxVars, storeVars, localVars, countVars, runVars, exc, failures>>

\* 3a. append_rows: check_duplicate first.
CheckDuplicate ==
    /\ pc = "check"
    /\ \/ /\ check_duplicate(sheet, form_data.numero_formulario)
          /\ exc' = "FormularioDuplicadoError"
          /\ att' = Logged("check", "duplicate")
          /\ pc' = "cleanup"
          /\ UNCHANGED failures
       \/ /\ ~check_duplicate(sheet, form_data.numero_formulario)
          /\ att' = Logged("check", "ok")
          /\ pc' = "append"
          /\ UNCHANGED <<exc, failures>>
       \/ /\ CanFail
          /\ failures' = failures + 1
          /\ exc' \in ApiFailures
          /\ att' = Logged("check", "fail")
          /\ pc' = "cleanup"
    /\ UNCHANGED <<mailboxVars, storeVars, localVars, countVars, runVars>>

\* Mutant of AppendRows: a failed append is swallowed and the flow goes on.
AppendRows_FailureSwallowed ==
    /\ pc = "append"
    /\ \/ /\ sheet' = sheet \o prepare_rows(form_data)
          /\ att' = Logged("append", "ok")
          /\ UNCHANGED failures
       \/ /\ CanFail
          /\ failures' = failures + 1
          /\ att' = Logged("append", "fail")
          /\ UNCHANGED sheet
    /\ pc' = "archive"
    /\ UNCHANGED <<mailboxVars, driveFolders, driveFiles, localVars, countVars, runVars,
                   exc>>

\* 3b. append_rows: _prepare_rows and values().append.
AppendRows ==
    /\ pc = "append"
    /\ \/ /\ sheet' = sheet \o prepare_rows(form_data)
          /\ att' = Logged("append", "ok")
          /\ pc' = "archive"
          /\ UNCHANGED <<exc, failures>>
       \/ /\ CanFail
          /\ prepare_rows(form_data) # <<>>
          /\ failures' = failures + 1
          /\ exc' \in ApiFailures
          /\ att' = Logged("append", "fail")
          /\ pc' = "cleanup"
          /\ UNCHANGED sheet
    /\ UNCHANGED <<mailboxVars, driveFolders, driveFiles, localVars, countVars, runVars>>

\* 4. archive_form: ensure_folder_structure (three folders), upload_file,
\* then form_data['archivo_original'] is set to the uploaded file's link.
DriveFolderDepth == 3

\* Mutant of Archive: the cleaned requester name is stored in the submission.
Archive_StoresCleanName ==
    /\ pc = "archive"
    /\ \/ /\ temp_file \in tempFiles
          /\ driveFolders' = DriveFolderDepth
          /\ driveFiles' = Append(driveFiles,
                                  [numero_formulario |-> form_data.numero_formulario,
                                   solicitante |-> form_data.solicitante])
          /\ form_data' = [form_data EXCEPT !.archivo_original = "webViewLink",
                                            !.solicitante = "clean"]
          /\ att' = Logged("archive", "ok")
          /\ pc' = "notify"
          /\ UNCHANGED <<exc, failures>>
       \/ /\ CanFail
          /\ failures' = failures + 1
          /\ \E ensured \in 0..DriveFolderDepth :
                driveFolders' = IF ensured > driveFolders THEN ensured ELSE driveFolders
          /\ exc' \in ApiFailures
          /\ att' = Logged("archive", "fail")
          /\ pc' = "cleanup"
          /\ UNCHANGED <<driveFiles, form_data>>
    /\ UNCHANGED <<mailboxVars, sheet, tempFiles, openWorkbooks, temp_file, countVars,
                   runVars>>

Archive ==
    /\ pc = "archive"
    /\ \/ /\ temp_file \in tempFiles
          /\ driveFolders' = DriveFolderDepth
          /\ driveFiles' = Append(driveFiles,
                                  [numero_formulario |-> form_data.numero_formulario,
                                   solicitante |-> form_data.solicitante])
          /\ form_data' = [form_data EXCEPT !.archivo_original = "webViewLink"]
          /\ att' = Logged("archive", "ok")
          /\ pc' = "notify"
          /\ UNCHANGED <<exc, failures>>
       \/ /\ CanFail
          /\ failures' = failures + 1
          /\ \E ensured \in 0..DriveFolderDepth :
                driveFolders' = IF ensured > driveFolders THEN ensured ELSE driveFolders
          /\ exc' \in ApiFailures
          /\ att' = Logged("archive", "fail")
          /\ pc' = "cleanup"
          /\ UNCHANGED <<driveFiles, form_data>>
    /\ UNCHANGED <<mailboxVars, sheet, tempFiles, openWorkbooks, temp_file, countVars,
                   runVars>>
\* GmailService.add_label: create_label (list, create when missing), then
\* messages().modify; a failure may come after the label was created.
AddLabel(label_name, step, pcOk, pcFail) ==
    \/ /\ labelNames' = labelNames \cup {label_name}
       /\ labels' = [labels EXCEPT ![message_id] = @ \cup {label_name}]
       /\ att' = Logged(step, "ok")
       /\ pc' = pcOk
       /\ UNCHANGED <<exc, failures>>
    \/ /\ CanFail
       /\ failures' = failures + 1
       /\ \E created \in BOOLEAN :
             labelNames' = IF created THEN labelNames \cup {label_name} ELSE labelNames
       /\ exc' \in IF pcFail = "count" THEN {exc} ELSE ApiFailures
       /\ att' = Logged(step, "fail")
       /\ pc' = pcFail
       /\ UNCHANGED labels

\* GmailService.mark_as_read
MarkAsRead(step, pcOk, pcFail) ==
    \/ /\ unread' = [unread EXCEPT ![message_id] = FALSE]
       /\ att' = Logged(step, "ok")
       /\ pc' = pcOk
       /\ UNCHANGED <<exc, failures>>
    \/ /\ CanFail
       /\ failures' = failures + 1
       /\ exc' \in IF pcFail = "count" THEN {exc} ELSE ApiFailures
       /\ att' = Logged(step, "fail")
       /\ pc' = pcFail
       /\ UNCHANGED unread

\* GmailService.send_email through one of the three send_*_notification
\* (and get_message_details of _handle_duplicate): no state of the model
\* changes but the record of the call.
GmailCall(step, pcOk, pcFail) ==
    \/ /\ att' = Logged(step, "ok")
       /\ pc' = pcOk
       /\ UNCHANGED <<exc, failures>>
    \/ /\ CanFail
       /\ failures' = failures + 1
       /\ exc' \in IF pcFail = "count" THEN {exc} ELSE ApiFailures
       /\ att' = Logged(step, "fail")
       /\ pc' = pcFail

\* 5. send_success_notification
NotifySuccess ==
    /\ pc = "notify"
    /\ GmailCall("notify", "label", "cleanup")
    /\ UNCHANGED <<mailboxVars, storeVars, localVars, countVars, runVars>>

\* 6. add_label(message_id, LABEL_PROCESSED)
LabelProcessed ==
    /\ pc = "label"
    /\ AddLabel(LABEL_PROCESSED, "label", "markread", "cleanup")
    /\ UNCHANGED <<unread, storeVars, localVars, countVars, runVars>>

\* 6. mark_as_read(message_id)
MarkReadProcessed ==
    /\ pc = "markread"
    /\ MarkAsRead("markread", "cleanup", "cleanup")
    /\ UNCHANGED <<labels, labelNames, storeVars, localVars, countVars, runVars>>

\* Mutant of Cleanup: the unlink sits at the end of the try body, not in a
\* finally clause, and is skipped when an exception is in flight.
Cleanup_OnlyOnSuccess ==
    /\ pc = "cleanup"
    /\ tempFiles' = IF exc = "none" /\ temp_file # None /\ temp_file \in tempFiles
                    THEN tempFiles \ {temp_file}
                    ELSE tempFiles
    /\ temp_file' = None
    /\ att' = Logged("cleanup", "ok")
    /\ pc' = Handler(exc)
    /\ UNCHANGED <<mailboxVars, storeVars, openWorkbooks, form_data, exc, countVars,
                   runVars, failures>>

\* finally: the temporary file is unlinked, then the exception (if any)
\* propagates to the except clauses of process_emails.
Cleanup ==
    /\ pc = "cleanup"
    /\ tempFiles' = IF temp_file # None /\ temp_file \in tempFiles
                    THEN tempFiles \ {temp_file}
                    ELSE tempFiles
    /\ temp_file' = None
    /\ att' = Logged("cleanup", "ok")
    /\ pc' = Handler(exc)
    /\ UNCHANGED <<mailboxVars, storeVars, openWorkbooks, form_data, exc, countVars,
                   runVars, failures>>

\* ------------------------------------------------ _handle_duplicate
\* Any exception inside the handler is logged and swallowed.
DuplicateDetails ==
    /\ pc = "dup_details"
    /\ GmailCall("dup_details", "dup_notify", "count")
    /\ UNCHANGED <<mailboxVars, storeVars, localVars, countVars, runVars>>

DuplicateNotify ==
    /\ pc = "dup_notify"
    /\ GmailCall("dup_notify", "dup_label", "count")
    /\ UNCHANGED <<mailboxVars, storeVars, localVars, countVars, runVars>>

DuplicateLabel ==
    /\ pc = "dup_label"
    /\ AddLabel(LABEL_DUPLICATE, "dup_label", "dup_markread", "count")
    /\ UNCHANGED <<unread, storeVars, localVars, countVars, runVars>>

DuplicateMarkRead ==
    /\ pc = "dup_markread"
    /\ MarkAsRead("dup_markread", "count", "count")
    /\ UNCHANGED <<labels, labelNames, storeVars, localVars, countVars, runVars>>

\* ---------------------------------------------------- _handle_error
\* Mutant of ErrorNotify: _handle_error has no try/except, and a failed
\* notification leaves process_emails.
ErrorNotify_Escapes ==
    /\ pc = "err_notify"
    /\ GmailCall("err_notify", "err_label", "done")
    /\ UNCHANGED <<mailboxVars, storeVars, localVars, countVars, runVars>>

ErrorNotify ==
    /\ pc = "err_notify"
    /\ GmailCall("err_notify", "err_label", "count")
    /\ UNCHANGED <<mailboxVars, storeVars, localVars, countVars, runVars>>

ErrorLabel ==
    /\ pc = "err_label"
    /\ AddLabel(LABEL_ERROR, "err_label", "err_markread", "count")
    /\ UNCHANGED <<unread, storeVars, localVars, countVars, runVars>>

ErrorMarkRead ==
    /\ pc = "err_markread"
    /\ MarkAsRead("err_markread", "count", "count")
    /\ UNCHANGED <<labels, labelNames, storeVars, localVars, countVars, runVars>>

\* ---------------------------------------------------- process_emails
\* Mutant of Count: a duplicate is counted as an error.
Count_DuplicateIsError ==
    /\ pc = "count"
    /\ processed_count' = IF exc = "none" THEN processed_count + 1 ELSE processed_count
    /\ duplicate_count' = duplicate_count
    /\ error_count' = IF exc # "none" THEN error_count + 1 ELSE error_count
    /\ pc' = "next"
    /\ UNCHANGED <<mailboxVars, storeVars, localVars, exc, runVars, failures, att>>

\* The counter of the branch taken is incremented once the branch returns.
Count ==
    /\ pc = "count"
    /\ processed_count' = IF exc = "none" THEN processed_count + 1 ELSE processed_count
    /\ duplicate_count' = IF exc = "FormularioDuplicadoError"
                          THEN duplicate_count + 1 ELSE duplicate_count
    /\ error_count' = IF exc \notin {"none", "FormularioDuplicadoError"}
                      THEN error_count + 1 ELSE error_count
    /\ pc' = "next"
    /\ UNCHANGED <<mailboxVars, storeVars, localVars, exc, runVars, failures, att>>

\* for i, message in enumerate(messages, 1)
NextMessage ==
    /\ pc = "next"
    /\ i < Len(queue)
    /\ i' = i + 1
    /\ attempts' = Append(attempts, queue[i + 1])
    /\ att' = <<>>
    /\ exc' = "none"
    /\ form_data' = NoForm
    /\ pc' = "fetch"
    /\ UNCHANGED <<attachment, workbook, parser, detailVars, mailboxVars, storeVars, tempFiles, openWorkbooks,
                   temp_file, countVars, run, queue, critical, exit_code, failures>>

LoopEnds ==
    /\ pc = "next"
    /\ i = Len(queue)
    /\ pc' = "done"
    /\ UNCHANGED <<attachment, workbook, parser, detailVars, mailboxVars, storeVars, localVars, countVars, run,
                   queue, i, critical, exit_code, failures, attempts, att, exc>>

\* print_summary and the return of run(); the process exits.
Exit ==
    /\ pc = "done"
    /\ exit_code' = IF critical THEN 1 ELSE IF error_count = 0 THEN 0 ELSE 1
    /\ openWorkbooks' = {}
    /\ pc' = "idle"
    /\ UNCHANGED <<attachment, workbook, parser, detailVars, mailboxVars, storeVars, tempFiles, temp_file, form_data,
                   exc, countVars, run, queue, i, critical, failures, attempts, att>>

Next ==
    \/ StartRun
    \/ StartRunFails
    \/ Download
    \/ Parse
    \/ CheckDuplicate
    \/ AppendRows
    \/ Archive
    \/ NotifySuccess
    \/ LabelProcessed
    \/ MarkReadProcessed
    \/ Cleanup
    \/ DuplicateDetails
    \/ DuplicateNotify
    \/ DuplicateLabel
    \/ DuplicateMarkRead
    \/ ErrorNotify
    \/ ErrorLabel
    \/ ErrorMarkRead
    \/ Count
    \/ NextMessage
    \/ LoopEnds
    \/ Exit

Spec == Init /\ [][Next]_vars

\* ================================================== the Excel parser
\* src/parsers/excel_parser.py, cell by cell.  A Python str is a sequence of
\* one-character strings, so that lower(), strip() and the substring test
\* are computed; a cell value is None, a str, an int or a datetime.
NoneValue == [t |-> "None"]
Text(s) == [t |-> "str", v |-> s]
Number(n) == [t |-> "int", v |-> n]
Date(y, m, d) == [t |-> "datetime", year |-> y, month |-> m, day |-> d]

Min(S) == CHOOSE x \in S : \A y \in S : x <= y
Max(S) == CHOOSE x \in S : \A y \in S : x >= y

UPPERCASE == <<"A", "B", "C", "D", "E", "F", "G", "H", "I", "J", "K", "L", "M", "N", "O", "P", "Q", "R", "S", "T", "U", "V", "W", "X", "Y", "Z", "Ó">>
LOWERCASE == <<"a", "b", "c", "d", "e", "f", "g", "h", "i", "j", "k", "l", "m", "n", "o", "p", "q", "r", "s", "t", "u", "v", "w", "x", "y", "z", "ó">>
WHITESPACE == {" ", "\t", "\n"}
DIGITS == <<"0", "1", "2", "3", "4", "5", "6", "7", "8", "9">>

\* str.lower()
Lower(s) ==
    LET LowerChar(c) ==
            IF \E k \in 1..Len(UPPERCASE) : UPPERCASE[k] = c
            THEN LOWERCASE[CHOOSE k \in 1..Len(UPPERCASE) : UPPERCASE[k] = c]
            ELSE c
    IN [k \in 1..Len(s) |-> LowerChar(s[k])]

\* str.strip()
Strip(s) ==
    LET kept == {k \in 1..Len(s) : s[k] \notin WHITESPACE}
    IN IF kept = {} THEN <<>> ELSE SubSeq(s, Min(kept), Max(kept))

\* keyword in text
Contains(keyword, s) ==
    \E p \in 0..(Len(s) - Len(keyword)) : SubSeq(s, p + 1, p + Len(keyword)) = keyword

\* str(int)
RECURSIVE IntStr(_)
IntStr(n) ==
    IF n < 0 THEN <<"-">> \o IntStr(0 - n)
    ELSE IF n < 10 THEN <<DIGITS[n + 1]>>
    ELSE IntStr(n \div 10) \o <<DIGITS[(n % 10) + 1]>>

RECURSIVE ZeroPad(_, _)
ZeroPad(s, width) == IF Len(s) >= width THEN s ELSE ZeroPad(<<"0">> \o s, width)

\* value.strftime('%Y-%m-%d')
strftime(value) ==
    ZeroPad(IntStr(value.year), 4) \o <<"-">> \o ZeroPad(IntStr(value.month), 2)
        \o <<"-">> \o ZeroPad(IntStr(value.day), 2)

\* str(value); the datetimes of the model are at midnight
Str(value) ==
    IF value.t = "None" THEN <<"N", "o", "n", "e">>
    ELSE IF value.t = "str" THEN value.v
    ELSE IF value.t = "int" THEN IntStr(value.v)
    ELSE strftime(value) \o <<" ", "0", "0", ":", "0", "0", ":", "0", "0">>

\* the truth value Python gives a cell value (if cell, not item_number)
Truthy(value) ==
    IF value.t = "None" THEN FALSE
    ELSE IF value.t = "str" THEN value.v # <<>>
    ELSE IF value.t = "int" THEN value.v # 0
    ELSE TRUE

\* ------------------------------------------------- config.py
\* Mutant of FORM_TYPE_KEYWORDS: 'cost' is also a keyword of COMPRAS.
FORM_TYPE_KEYWORDS_Shared ==
    <<[form_type |-> "COMPRAS",
       keywords |-> <<<<"c", "o", "m", "p", "r", "a">>,
                      <<"a", "d", "q", "u", "i", "s", "i", "c", "i", "ó", "n">>,
                      <<"p", "u", "r", "c", "h", "a", "s", "e">>,
                      <<"c", "o", "s", "t">>>>],
      [form_type |-> "SERVICIOS",
       keywords |-> <<<<"s", "e", "r", "v", "i", "c", "i", "o">>,
                      <<"s", "e", "r", "v", "i", "c", "e">>>>],
      [form_type |-> "COSTOS",
       keywords |-> <<<<"c", "o", "s", "t", "o">>,
                      <<"g", "a", "s", "t", "o">>,
                      <<"e", "x", "p", "e", "n", "s", "e">>,
                      <<"c", "o", "s", "t">>>>]>>

FORM_TYPE_KEYWORDS ==
    <<[form_type |-> "COMPRAS",
       keywords |-> <<<<"c", "o", "m", "p", "r", "a">>,
                      <<"a", "d", "q", "u", "i", "s", "i", "c", "i", "ó", "n">>,
                      <<"p", "u", "r", "c", "h", "a", "s", "e">>>>],
      [form_type |-> "SERVICIOS",
       keywords |-> <<<<"s", "e", "r", "v", "i", "c", "i", "o">>,
                      <<"s", "e", "r", "v", "i", "c", "e">>>>],
      [form_type |-> "COSTOS",
       keywords |-> <<<<"c", "o", "s", "t", "o">>,
                      <<"g", "a", "s", "t", "o">>,
                      <<"e", "x", "p", "e", "n", "s", "e">>,
                      <<"c", "o", "s", "t">>>>]>>

HEADER_MAPPING_COMMON ==
    <<<<"numero_formulario", <<"D", 2>>>>,
      <<"fecha", <<"D", 3>>>>,
      <<"solicitante", <<"D", 4>>>>,
      <<"area", <<"D", 5>>>>,
      <<"observaciones", <<"D", 6>>>>>>

\* Mutant of FORM_TYPE_MAPPINGS: the registry has no entry for COSTOS.
FORM_TYPE_MAPPINGS_NoCostos ==
    [COMPRAS |->
        [header |-> HEADER_MAPPING_COMMON,
         items_start_row |-> 10,
         items_columns |-> <<<<"numero_item", "A">>, <<"descripcion", "B">>,
                             <<"cantidad", "C">>, <<"unidad", "D">>,
                             <<"precio_unitario", "E">>, <<"total", "F">>>>],
     SERVICIOS |->
        [header |-> HEADER_MAPPING_COMMON,
         items_start_row |-> 10,
         items_columns |-> <<<<"numero_item", "A">>, <<"servicio", "B">>,
                             <<"proveedor", "C">>, <<"monto", "D">>,
                             <<"fecha_servicio", "E">>>>]]

FORM_TYPE_MAPPINGS ==
    [COMPRAS |->
        [header |-> HEADER_MAPPING_COMMON,
         items_start_row |-> 10,
         items_columns |-> <<<<"numero_item", "A">>, <<"descripcion", "B">>,
                             <<"cantidad", "C">>, <<"unidad", "D">>,
                             <<"precio_unitario", "E">>, <<"total", "F">>>>],
     SERVICIOS |->
        [header |-> HEADER_MAPPING_COMMON,
         items_start_row |-> 10,
         items_columns |-> <<<<"numero_item", "A">>, <<"servicio", "B">>,
                             <<"proveedor", "C">>, <<"monto", "D">>,
                             <<"fecha_servicio", "E">>>>],
     COSTOS |->
        [header |-> HEADER_MAPPING_COMMON,
         items_start_row |-> 10,
         items_columns |-> <<<<"numero_item", "A">>, <<"concepto", "B">>,
                             <<"categoria", "C">>, <<"monto", "D">>,
                             <<"fecha", "E">>>>]]

\* a dict given as the sequence of its (key, value) pairs, in declaration order
Keys(mapping) == {mapping[k][1] : k \in 1..Len(mapping)}
Get(mapping, key) == mapping[CHOOSE k \in 1..Len(mapping) : mapping[k][1] = key][2]

\* ------------------------------------------------- the worksheet
COLUMNS == <<"A", "B", "C", "D", "E", "F">>

\* self.sheet[cell_ref].value: a cell never written holds None
CellAt(w, cell_ref) ==
    IF cell_ref \in DOMAIN w.cells THEN w.cells[cell_ref] ELSE NoneValue

\* ------------------------------------------------- _identify_form_type
CONTENT_MAX_ROW == 10

Unclassified == ""

\* for form_type, keywords in FORM_TYPE_KEYWORDS.items(): for keyword in
\* keywords: if keyword.lower() in text: return form_type
first_match(text) ==
    LET hits == {k \in 1..Len(FORM_TYPE_KEYWORDS) :
                    \E j \in 1..Len(FORM_TYPE_KEYWORDS[k].keywords) :
                        Contains(Lower(FORM_TYPE_KEYWORDS[k].keywords[j]), text)}
    IN IF hits = {} THEN Unclassified ELSE FORM_TYPE_KEYWORDS[Min(hits)].form_type

\* Mutant of SheetName: the title is compared as it is written.
SheetName_CaseKept(w) == w.title

\* sheet_name = self.sheet.title.lower()
SheetName(w) == Lower(w.title)

RECURSIVE Join(_)
Join(texts) ==
    IF texts = <<>> THEN <<>>
    ELSE IF Len(texts) = 1 THEN texts[1]
    ELSE texts[1] \o <<" ">> \o Join(Tail(texts))

\* content += " ".join(str(cell).lower() for cell in row if cell) for each
\* row of iter_rows(min_row=1, max_row=10): nothing is put between the text
\* of one row and the text of the next
RECURSIVE ContentFrom(_, _)
ContentFrom(w, r) ==
    LET row == [c \in 1..Len(COLUMNS) |-> CellAt(w, <<COLUMNS[c], r>>)]
        cells == SelectSeq(row, Truthy)
        RowText == Join([k \in 1..Len(cells) |-> Lower(Str(cells[k]))])
    IN IF r > CONTENT_MAX_ROW THEN <<>> ELSE RowText \o ContentFrom(w, r + 1)

Content(w) == ContentFrom(w, 1)

identify_form_type(w) ==
    LET by_name == first_match(SheetName(w))
    IN IF by_name # Unclassified
       THEN [form_type |-> by_name, content_read |-> FALSE]
       ELSE [form_type |-> first_match(Content(w)), content_read |-> TRUE]

\* ------------------------------------------------- _extract_header_data
\* the cleaning of a header value: every value but None and datetime goes
\* through str(value).strip()
header_value(value) ==
    IF value.t = "None" THEN Text(<<>>)
    ELSE IF value.t = "datetime" THEN Text(strftime(value))
    ELSE Text(Strip(Str(value)))

extract_header_values(w, form_type) ==
    LET mapping == FORM_TYPE_MAPPINGS[form_type].header
    IN [field_name \in Keys(mapping) |->
            header_value(CellAt(w, Get(mapping, field_name)))]

\* Mutant of campos_obligatorios: the requester is validated first.
campos_obligatorios_reversed == <<"solicitante", "numero_formulario">>

campos_obligatorios == <<"numero_formulario", "solicitante">>

\* Mutant of missing_campo: only the first mandatory field is validated.
missing_campo_first_only(header_data) ==
    IF ~Truthy(header_data[campos_obligatorios[1]]) THEN 1 ELSE 0

\* for campo in campos_obligatorios: if not header_data.get(campo): raise;
\* the index of the campo that raises, 0 when none does
missing_campo(header_data) ==
    LET missing == {k \in 1..Len(campos_obligatorios) :
                       ~Truthy(header_data[campos_obligatorios[k]])}
    IN IF missing = {} THEN 0 ELSE Min(missing)

\* ------------------------------------------------- _extract_items_data
MAX_ITEM_ROWS == 1000

\* _get_cell_value
get_cell_value(value) ==
    IF value.t = "None" THEN Text(<<>>)
    ELSE IF value.t = "datetime" THEN Text(strftime(value))
    ELSE IF value.t = "int" THEN value
    ELSE Text(Strip(Str(value)))

\* _extract_item_row
extract_item_row(w, row, columns_mapping) ==
    [field_name \in Keys(columns_mapping) |->
        get_cell_value(CellAt(w, <<Get(columns_mapping, field_name), row>>))]

\* if not item_number or str(item_number).strip() == "": break
key_stops(item_number) == ~Truthy(item_number) \/ Strip(Str(item_number)) = <<>>

\* the iterations of the while loop are evaluated SCAN_BLOCK at a time
SCAN_BLOCK == 32

\* at most left iterations of the while loop from current_row on; last_row
\* is the last row whose key cell was read, broke tells that the loop ended
RECURSIVE scan_block(_, _, _, _, _)
scan_block(w, form_type, current_row, items, left) ==
    LET items_start_row == FORM_TYPE_MAPPINGS[form_type].items_start_row
        columns_mapping == FORM_TYPE_MAPPINGS[form_type].items_columns
        item_number == CellAt(w, <<Get(columns_mapping, "numero_item"), current_row>>)
        item_data == extract_item_row(w, current_row, columns_mapping)
        appended == IF DOMAIN item_data # {} THEN Append(items, item_data) ELSE items
    IN IF key_stops(item_number)
       THEN [items |-> items, last_row |-> current_row, broke |-> TRUE]
       ELSE IF current_row + 1 > items_start_row + MAX_ITEM_ROWS
       THEN [items |-> appended, last_row |-> current_row, broke |-> TRUE]
       ELSE IF left = 1
       THEN [items |-> appended, last_row |-> current_row, broke |-> FALSE]
       ELSE scan_block(w, form_type, current_row + 1, appended, left - 1)

\* the while loop from current_row on
RECURSIVE scan_items(_, _, _, _)
scan_items(w, form_type, current_row, items) ==
    LET block == scan_block(w, form_type, current_row, items, SCAN_BLOCK)
    IN IF block.broke
       THEN [items |-> block.items, last_row |-> block.last_row]
       ELSE scan_items(w, form_type, block.last_row + 1, block.items)

extract_items_data(w, form_type) ==
    scan_items(w, form_type, FORM_TYPE_MAPPINGS[form_type].items_start_row, <<>>)

\* ------------------------------------------------- parse
\* result = {**header_data, 'tipo_formulario', 'items', 'archivo_original'}
build_result(header_data, form_type, items_data, file_name) ==
    [key \in DOMAIN header_data \cup {"tipo_formulario", "items", "archivo_original"} |->
        IF key = "tipo_formulario" THEN form_type
        ELSE IF key = "items" THEN items_data
        ELSE IF key = "archivo_original" THEN file_name
        ELSE header_data[key]]

\* ------------------------------------------------- the workbooks parsed
MaxItemRows == 3          \* rows of the item table a workbook may populate

Workbook(title, cells) == [loadable |-> TRUE, title |-> title, cells |-> cells]
\* what load_workbook or the read of the active sheet raises: the file is no
\* workbook, is no zip archive, or has no active sheet
UnreadableWorkbooks ==
    {[loadable |-> FALSE, title |-> <<>>, cells |-> <<>>, failure |-> failure] :
        failure \in {"InvalidFileException", "BadZipFile", "AttributeError"}}

ComprasTitle == <<"F", "o", "r", "m", "u", "l", "a", "r", "i", "o", " ", "d", "e", " ", "C", "o", "m", "p", "r", "a", "s", " ", "2", "0", "2", "4">>
ServiciosTitle == <<"S", "e", "r", "v", "i", "c", "i", "o", "s", " ", "C", "o", "n", "t", "r", "a", "t", "a", "d", "o", "s">>

A_DATE == Date(2024, 1, 15)

HeaderCells(numero, fecha, solicitante) ==
    (<<"D", 2>> :> numero) @@ (<<"D", 3>> :> fecha) @@ (<<"D", 4>> :> solicitante)

\* the item table: the key cells of column A from row 10 on, one field cell
\* in the first row and a text in column B of every other row
ItemCells(keys, field) ==
    [cell_ref \in {<<"A", 9 + k>> : k \in 1..Len(keys)} |-> keys[cell_ref[2] - 9]]
    @@ (<<"B", 10>> :> field)
    @@ [cell_ref \in {<<"B", 9 + k>> : k \in 2..Len(keys)} |-> Text(<<" ", "T", "o", "n", "e", "r", " ">>)]

GoodHeader == HeaderCells(Text(<<" ", "R", "6", "0", "-", "0", "0", "1", " ">>), A_DATE, Text(<<"J", "a", "n", "e", " ", "D", "o", "e">>))

\* sheets that differ in title and in the text of rows 1 and 2
ClassifierWorkbooks ==
    {Workbook(title, (<<"A", 1>> :> a1) @@ (<<"B", 1>> :> b1) @@ (<<"A", 2>> :> a2) @@ (<<"B", 2>> :> b2)
                     @@ GoodHeader
                     @@ ItemCells(<<Number(1)>>, Text(<<" ", "P", "a", "p", "e", "r", " ">>))) :
        title \in
            {<<"F", "o", "r", "m", "u", "l", "a", "r", "i", "o", " ", "d", "e", " ", "C", "o", "m", "p", "r", "a", "s", " ", "2", "0", "2", "4">>,
             <<"S", "e", "r", "v", "i", "c", "i", "o", "s", " ", "C", "o", "n", "t", "r", "a", "t", "a", "d", "o", "s">>,
             <<"F", "o", "r", "m", "u", "l", "a", "r", "i", "o", " ", "D", "e", "s", "c", "o", "n", "o", "c", "i", "d", "o">>,
             <<"S", "E", "R", "V", "I", "C", "I", "O", " ", "D", "E", " ", "C", "O", "M", "P", "R", "A", "S">>,
             <<"C", "o", "s", "t", "o", " ", "d", "e", " ", "S", "e", "r", "v", "i", "c", "i", "o", "s">>,
             <<"A", "D", "Q", "U", "I", "S", "I", "C", "I", "Ó", "N">>,
             <<"H", "o", "j", "a", "1">>,
             <<"G", "a", "s", "t", "o", "s">>},
        a1 \in {NoneValue, Text(<<"C", "o", "m">>), Text(<<"G", "a", "s", "t", "o", "s", " ", "v", "a", "r", "i", "o", "s">>)},
        b1 \in {NoneValue, Text(<<"p", "r", "a">>)},
        a2 \in {NoneValue, Text(<<"p", "r", "a">>)},
        b2 \in {NoneValue, Text(<<"S", "e", "r", "v", "i", "c", "i", "o">>)}}

\* sheets that differ in the header cells, with and without an item
HeaderWorkbooks ==
    {Workbook(ComprasTitle, HeaderCells(numero, fecha, solicitante) @@ ItemCells(<<key>>, Text(<<" ", "P", "a", "p", "e", "r", " ">>))) :
        numero \in {NoneValue, Text(<<" ", " ">>), Text(<<" ", "R", "6", "0", "-", "0", "0", "1", " ">>), Number(60)},
        fecha \in {NoneValue, A_DATE, Text(<<"2", "0", "2", "3", "-", "7", "-", "4">>),
                   Text(<<"2", "0", "2", "4", "-", "0", "2", "-", "3", "0">>),
                   Text(<<"1", "5", "/", "0", "1", "/", "2", "0", "2", "4">>)},
        solicitante \in {NoneValue, Text(<<" ", "\t">>), Text(<<"J", "a", "n", "e", " ", "D", "o", "e">>),
                         Text(<<"#", " ", "A", "n", "a", "-", "M", "_", "2", " ", "(", "I", "T", ")">>)},
        key \in {NoneValue, Number(1)}}

\* sheets that differ in the item table
ItemWorkbooks ==
    {Workbook(title, GoodHeader @@ ItemCells(keys, field)) :
        title \in {ComprasTitle, ServiciosTitle},
        keys \in [1..MaxItemRows -> {NoneValue, Text(<<" ">>), Number(0), Number(1), Text(<<"a">>)}],
        field \in {NoneValue, Text(<<" ", "P", "a", "p", "e", "r", " ">>), Number(5), A_DATE}}

\* a sheet whose key column is filled beyond the rows the scan may read
FILLED_ROWS == 1002

LongWorkbook ==
    Workbook(ComprasTitle,
             GoodHeader @@ [cell_ref \in {<<"A", 9 + k>> : k \in 1..FILLED_ROWS} |->
                                Number(cell_ref[2] - 9)])

Workbooks ==
    UnreadableWorkbooks \cup ClassifierWorkbooks \cup HeaderWorkbooks \cup ItemWorkbooks
    \cup {LongWorkbook}

FILE_NAME == "adjunto.xlsx"

\* parse_r60_form is entered by the flow of a message whose attachment has
\* been downloaded.
ParserInit ==
    /\ workbook \in Workbooks
    \* ExcelParser.__init__ and the locals of parse
    /\ parser = [pc |-> "new", form_type |-> Unclassified, content_read |-> FALSE,
                 header_data |-> <<>>, items |-> <<>>, last_row |-> 0, result |-> <<>>,
                 error |-> [kind |-> "none"], calls |-> <<>>]
    /\ attachment = [m \in Msgs |-> FormA]
    /\ labels = [m \in Msgs |-> {}]
    /\ unread = [m \in Msgs |-> TRUE]
    /\ labelNames = {}
    /\ sheet = <<SHEET_HEADER_ROW>>
    /\ driveFolders = 0
    /\ driveFiles = <<>>
    /\ tempFiles = {1}
    /\ openWorkbooks = {}
    /\ run = 1
    /\ pc = "parse"
    /\ queue = <<1>>
    /\ i = 1
    /\ temp_file = 1
    /\ form_data = NoForm
    /\ exc = "none"
    /\ processed_count = 0
    /\ error_count = 0
    /\ duplicate_count = 0
    /\ critical = FALSE
    /\ exit_code = -1
    /\ failures = 0
    /\ attempts = <<1>>
    /\ att = <<<<"fetch", "ok">>>>
    /\ rows_added = 0
    /\ folders = <<>>
    /\ parts = <<>>
    /\ procs = <<>>

\* what no method of the parser touches
parserFrame ==
    <<workbook, attachment, mailboxVars, storeVars, tempFiles, temp_file, countVars,
      run, queue, i, critical, exit_code, attempts, failures, detailVars>>
callerFrame == <<form_data, exc, pc, att>>

Calling(method) == [parser EXCEPT !.calls = Append(@, method)]

Raise(p, error) == [p EXCEPT !.pc = "raised", !.error = error]

\* Mutant of LoadWorkbook: only InvalidFileException is caught and wrapped.
LoadWorkbook_OneKindWrapped ==
    /\ pc = "parse"
    /\ parser.pc = "new"
    /\ IF workbook.loadable
       THEN /\ parser' = [Calling("_load_workbook") EXCEPT !.pc = "loaded"]
            /\ openWorkbooks' = openWorkbooks \cup {temp_file}
       ELSE /\ parser' = Raise(Calling("_load_workbook"),
                               IF workbook.failure = "InvalidFileException"
                               THEN [kind |-> "ArchivoExcelInvalidoError",
                                     archivo |-> FILE_NAME,
                                     detalle |-> workbook.failure]
                               ELSE [kind |-> workbook.failure])
            /\ UNCHANGED openWorkbooks
    /\ UNCHANGED <<parserFrame, callerFrame>>

\* 1. self._load_workbook(): except Exception as e wraps whatever was raised
LoadWorkbook ==
    /\ pc = "parse"
    /\ parser.pc = "new"
    /\ IF workbook.loadable
       THEN /\ parser' = [Calling("_load_workbook") EXCEPT !.pc = "loaded"]
            /\ openWorkbooks' = openWorkbooks \cup {temp_file}
       ELSE /\ parser' = Raise(Calling("_load_workbook"),
                               [kind |-> "ArchivoExcelInvalidoError",
                                archivo |-> FILE_NAME,
                                detalle |-> workbook.failure])
            /\ UNCHANGED openWorkbooks
    /\ UNCHANGED <<parserFrame, callerFrame>>

\* 2. self.form_type = self._identify_form_type()
IdentifyFormType ==
    /\ pc = "parse"
    /\ parser.pc = "loaded"
    /\ LET found == identify_form_type(workbook)
           p == [Calling("_identify_form_type") EXCEPT
                    !.content_read = found.content_read]
       IN parser' =
             IF found.form_type = Unclassified
             THEN Raise(p, [kind |-> "TipoFormularioNoReconocidoError",
                            archivo |-> FILE_NAME])
             ELSE [p EXCEPT !.pc = "classified", !.form_type = found.form_type]
    /\ UNCHANGED <<parserFrame, callerFrame, openWorkbooks>>

\* Mutant of ExtractHeaderData: the mandatory fields are not validated.
ExtractHeaderData_NotValidated ==
    /\ pc = "parse"
    /\ parser.pc = "classified"
    /\ parser' = [Calling("_extract_header_data") EXCEPT
                     !.pc = "header",
                     !.header_data = extract_header_values(workbook, parser.form_type)]
    /\ UNCHANGED <<parserFrame, callerFrame, openWorkbooks>>

\* 3. header_data = self._extract_header_data()
ExtractHeaderData ==
    /\ pc = "parse"
    /\ parser.pc = "classified"
    /\ LET mapping == FORM_TYPE_MAPPINGS[parser.form_type].header
           header_data == extract_header_values(workbook, parser.form_type)
           k == missing_campo(header_data)
           p == Calling("_extract_header_data")
       IN parser' =
             IF k # 0
             THEN Raise(p, [kind |-> "CampoObligatorioError",
                            campo |-> campos_obligatorios[k],
                            celda |-> Get(mapping, campos_obligatorios[k])])
             ELSE [p EXCEPT !.pc = "header", !.header_data = header_data]
    /\ UNCHANGED <<parserFrame, callerFrame, openWorkbooks>>

\* 4. items_data = self._extract_items_data()
ExtractItemsData ==
    /\ pc = "parse"
    /\ parser.pc = "header"
    /\ LET scan == extract_items_data(workbook, parser.form_type)
       IN parser' = [Calling("_extract_items_data") EXCEPT
                        !.pc = "items",
                        !.items = scan.items,
                        !.last_row = scan.last_row]
    /\ UNCHANGED <<parserFrame, callerFrame, openWorkbooks>>

\* Mutant of BuildResult: the result is built whatever the item list holds.
BuildResult_ItemsNotChecked ==
    /\ pc = "parse"
    /\ parser.pc = "items"
    /\ parser' = [parser EXCEPT
                    !.pc = "returned",
                    !.result = build_result(parser.header_data, parser.form_type,
                                            parser.items, FILE_NAME)]
    /\ openWorkbooks' = openWorkbooks \ {temp_file}
    /\ UNCHANGED <<parserFrame, callerFrame>>

\* 5-6. the empty-item check, the result, self.workbook.close()
BuildResult ==
    /\ pc = "parse"
    /\ parser.pc = "items"
    /\ IF parser.items = <<>>
       THEN /\ parser' = Raise(parser,
                               [kind |-> "ItemsVaciosError",
                                numero_formulario |->
                                    parser.header_data["numero_formulario"]])
            /\ UNCHANGED openWorkbooks
       ELSE /\ parser' = [parser EXCEPT
                            !.pc = "returned",
                            !.result = build_result(parser.header_data, parser.form_type,
                                                    parser.items, FILE_NAME)]
            /\ openWorkbooks' = openWorkbooks \ {temp_file}
    /\ UNCHANGED <<parserFrame, callerFrame>>

\* the Submission as the rest of the flow sees it
Submission(result) ==
    [numero_formulario |-> result["numero_formulario"],
     tipo_formulario |-> result["tipo_formulario"],
     solicitante |-> result["solicitante"],
     nitems |-> Len(result["items"]),
     archivo_original |-> result["archivo_original"]]

\* form_data = parse_r60_form(temp_file) in _process_single_email: the
\* result is bound, or the exception leaves the try body.
ParseReturns ==
    /\ pc = "parse"
    /\ parser.pc \in {"returned", "raised"}
    /\ IF parser.pc = "returned"
       THEN /\ form_data' = Submission(parser.result)
            /\ att' = Logged("parse", "ok")
            /\ pc' = "check"
            /\ UNCHANGED exc
       ELSE /\ exc' = parser.error.kind
            /\ att' = Logged("parse", "fail")
            /\ pc' = "cleanup"
            /\ UNCHANGED form_data
    /\ UNCHANGED <<parserFrame, parser, openWorkbooks>>

\* ------------------------------------------------- sheets_service.py
\* the characters of the strings the parser puts in its result as they are
Chars(name) ==
    CASE name = "COMPRAS" -> <<"C", "O", "M", "P", "R", "A", "S">>
      [] name = "SERVICIOS" -> <<"S", "E", "R", "V", "I", "C", "I", "O", "S">>
      [] name = "COSTOS" -> <<"C", "O", "S", "T", "O", "S">>
      [] name = FILE_NAME -> <<"a", "d", "j", "u", "n", "t", "o", ".", "x", "l", "s", "x">>

\* datetime.now(): the days a run may happen on
Clock == {Date(2024, 1, 31), Date(2026, 11, 2)}

\* form_data.get(key, ''): the values of tipo_formulario and archivo_original
\* are given by their characters, as every other text is
GetOrEmpty(d, key) ==
    IF key \notin DOMAIN d THEN Text(<<>>)
    ELSE IF key \in {"tipo_formulario", "archivo_original"} THEN Text(Chars(d[key]))
    ELSE d[key]

\* config.SHEET_HEADERS: the columns of the header row
SHEET_HEADERS ==
    <<<<"F", "e", "c", "h", "a", " ", "P", "r", "o", "c", "e", "s", "a", "m", "i", "e", "n", "t", "o">>,
      <<"N", "º", " ", "F", "o", "r", "m", "u", "l", "a", "r", "i", "o">>,
      <<"F", "e", "c", "h", "a", " ", "F", "o", "r", "m", "u", "l", "a", "r", "i", "o">>,
      <<"T", "i", "p", "o", " ", "F", "o", "r", "m", "u", "l", "a", "r", "i", "o">>,
      <<"S", "o", "l", "i", "c", "i", "t", "a", "n", "t", "e">>,
      <<"Á", "r", "e", "a">>,
      <<"N", "º", " ", "I", "t", "e", "m">>,
      <<"D", "e", "s", "c", "r", "i", "p", "c", "i", "ó", "n", "/", "S", "e", "r", "v", "i", "c", "i", "o", "/", "C", "o", "n", "c", "e", "p", "t", "o">>,
      <<"C", "a", "n", "t", "i", "d", "a", "d", "/", "P", "r", "o", "v", "e", "e", "d", "o", "r", "/", "C", "a", "t", "e", "g", "o", "r", "í", "a">>,
      <<"U", "n", "i", "d", "a", "d", "/", "M", "o", "n", "t", "o">>,
      <<"P", "r", "e", "c", "i", "o", " ", "U", "n", "i", "t", "a", "r", "i", "o", "/", "F", "e", "c", "h", "a", " ", "S", "e", "r", "v", "i", "c", "i", "o", "/", "F", "e", "c", "h", "a">>,
      <<"T", "o", "t", "a", "l", "/", "M", "o", "n", "t", "o">>,
      <<"O", "b", "s", "e", "r", "v", "a", "c", "i", "o", "n", "e", "s">>,
      <<"A", "r", "c", "h", "i", "v", "o", " ", "O", "r", "i", "g", "i", "n", "a", "l">>>>

\* the keys common_data reads from form_data, in the order of the row
COMMON_COLUMNS ==
    <<"numero_formulario", "tipo_formulario", "solicitante", "mail_solicitante",
      "tel_solicitante", "autorizado_por", "departamento", "lugar_entrega", "rubro",
      "fecha_entrega">>

\* the keys the row reads from the item, in the order of the row
ITEM_COLUMNS ==
    <<"codigo_polaris", "numero_item", "descripcion", "cantidad", "unidad",
      "fecha_entrega", "centro_costo">>

\* _prepare_rows: columns A to S of one row for each item
prepare_row_cells(data, now) ==
    LET items == IF "items" \in DOMAIN data THEN data["items"] ELSE <<>>
        fecha_procesamiento == Text(Str(now))
    IN [k \in 1..Len(items) |->
            <<fecha_procesamiento>>
            \o [c \in 1..Len(COMMON_COLUMNS) |-> GetOrEmpty(data, COMMON_COLUMNS[c])]
            \o [c \in 1..Len(ITEM_COLUMNS) |-> GetOrEmpty(items[k], ITEM_COLUMNS[c])]
            \o <<GetOrEmpty(data, "archivo_original")>>]

\* Mutant of check_duplicate_cells: column C is read.
check_duplicate_cells_column_C(values, form_number) ==
    \E k \in 2..Len(values) :
        /\ Len(values[k]) >= 3
        /\ Strip(Str(values[k][3])) = Strip(Str(form_number))

\* check_duplicate over the rows as they are written: column B of every row
\* after the first
check_duplicate_cells(values, form_number) ==
    \E k \in 2..Len(values) :
        /\ Len(values[k]) >= 2
        /\ Strip(Str(values[k][2])) = Strip(Str(form_number))

\* rows_added = self.sheets_service.append_rows(form_data), every call to
\* the API answering (what follows a call that fails is explored in Spec)
AppendRowCells ==
    /\ pc = "check"
    /\ parser.pc = "returned"
    /\ \E now \in Clock :
        LET rows == prepare_row_cells(parser.result, now)
        IN IF check_duplicate_cells(sheet, parser.result["numero_formulario"])
           THEN /\ exc' = "FormularioDuplicadoError"
                /\ att' = Logged("check", "duplicate")
                /\ pc' = "cleanup"
                /\ UNCHANGED <<sheet, rows_added>>
           ELSE /\ sheet' = sheet \o rows
                /\ rows_added' = Len(rows)
                /\ att' = Logged("append", "ok")
                /\ pc' = "archive"
                /\ UNCHANGED exc
    /\ UNCHANGED <<workbook, parser, attachment, mailboxVars, driveFolders, driveFiles,
                   localVars, countVars, run, queue, i, critical, exit_code, attempts,
                   failures, parts, procs, folders>>

\* ------------------------------------------------- drive_service.py
DRIVE_ROOT_FOLDER == <<"R", "6", "0", "_", "P", "R", "O", "C", "E", "S", "A", "D", "O", "S">>

IsDigit(c) == \E k \in 1..Len(DIGITS) : DIGITS[k] = c

\* int(s) of a string of digits
RECURSIVE ParseInt(_)
ParseInt(s) ==
    LET DigitValue(c) == (CHOOSE k \in 1..Len(DIGITS) : DIGITS[k] = c) - 1
    IN IF s = <<>> THEN 0
       ELSE 10 * ParseInt(SubSeq(s, 1, Len(s) - 1)) + DigitValue(s[Len(s)])

DaysInMonth(y, m) ==
    LET IsLeap == (y % 4 = 0 /\ y % 100 # 0) \/ y % 400 = 0
    IN IF m = 2 THEN (IF IsLeap THEN 29 ELSE 28)
       ELSE IF m \in {4, 6, 9, 11} THEN 30
       ELSE 31

ValueError == [t |-> "ValueError"]

\* the directive %m or %d: two digits, or one digit that is not 0
\* (1[0-2]|0[1-9]|[1-9] for %m, up to 31 and also a space and a digit for %d)
DirectiveMatches(s, highest, spaced) ==
    \/ Len(s) = 1 /\ IsDigit(s[1]) /\ s[1] # "0"
    \/ Len(s) = 2 /\ IsDigit(s[1]) /\ IsDigit(s[2]) /\ ParseInt(s) \in 1..highest
    \/ spaced /\ Len(s) = 2 /\ s[1] = " " /\ IsDigit(s[2]) /\ s[2] # "0"

\* datetime.strptime(s, '%Y-%m-%d'): the date, or ValueError when the text
\* does not match the format whole or names no day of the calendar
strptime(s) ==
    LET dashes == {k \in 1..Len(s) : s[k] = "-"}
        Y == SubSeq(s, 1, 4)
        m == SubSeq(s, 6, Max(dashes) - 1)
        d == SubSeq(s, Max(dashes) + 1, Len(s))
        day == ParseInt(SelectSeq(d, IsDigit))
    IN IF Cardinality(dashes) # 2 \/ Min(dashes) # 5 THEN ValueError
       ELSE IF ~(\A k \in 1..4 : IsDigit(Y[k])) THEN ValueError
       ELSE IF ~DirectiveMatches(m, 12, FALSE) \/ ~DirectiveMatches(d, 31, TRUE)
            THEN ValueError
       ELSE IF ParseInt(Y) < 1 \/ day > DaysInMonth(ParseInt(Y), ParseInt(m))
            THEN ValueError
       ELSE Date(ParseInt(Y), ParseInt(m), day)

\* c.isalnum()
IsAlnum(c) ==
    \/ IsDigit(c)
    \/ \E k \in 1..Len(UPPERCASE) : UPPERCASE[k] = c
    \/ \E k \in 1..Len(LOWERCASE) : LOWERCASE[k] = c

\* Mutant of clean_solicitante: no character is dropped.
clean_solicitante_unfiltered(solicitante) ==
    LET stripped == Strip(solicitante)
    IN [k \in 1..Len(stripped) |-> IF stripped[k] = " " THEN "_" ELSE stripped[k]]

\* "".join(c for c in solicitante if ...).strip().replace(' ', '_')
clean_solicitante(solicitante) ==
    LET KeptInName(c) == IsAlnum(c) \/ c \in {" ", "-", "_"}
        stripped == Strip(SelectSeq(solicitante, KeptInName))
    IN [k \in 1..Len(stripped) |-> IF stripped[k] = " " THEN "_" ELSE stripped[k]]

\* self.root_folder_id: the folder the bot works under
ROOT_FOLDER_ID == 0

\* find_folder_by_name: the id of a folder of that name under that parent
\* (the id of a folder is its position in folders), 0 for None
find_folder_by_name(fs, folder_name, parent_id) ==
    LET items == {k \in 1..Len(fs) : fs[k].name = folder_name /\ fs[k].parent = parent_id}
    IN IF items # {} THEN Min(items) ELSE 0

\* Mutant of ensure_folder_exists: the folder is created without a search.
ensure_folder_exists_unsearched(fs, folder_name, parent_id) ==
    [folders |-> Append(fs, [name |-> folder_name, parent |-> parent_id]),
     id |-> Len(fs) + 1]

\* ensure_folder_exists: the folders after the call and the id returned
ensure_folder_exists(fs, folder_name, parent_id) ==
    LET folder_id == find_folder_by_name(fs, folder_name, parent_id)
    IN IF folder_id # 0 THEN [folders |-> fs, id |-> folder_id]
       ELSE [folders |-> Append(fs, [name |-> folder_name, parent |-> parent_id]),
             id |-> Len(fs) + 1]

\* ensure_folder_structure(year, month)
ensure_folder_structure(fs, year, month) ==
    LET root == ensure_folder_exists(fs, DRIVE_ROOT_FOLDER, ROOT_FOLDER_ID)
        year_folder == ensure_folder_exists(root.folders, year, root.id)
    IN ensure_folder_exists(year_folder.folders, month, year_folder.id)

\* fecha_obj of archive_form
fecha_obj(data, now) ==
    LET fecha_formulario == GetOrEmpty(data, "fecha")
        parsed == strptime(Str(fecha_formulario))
    IN IF ~Truthy(fecha_formulario) THEN now
       ELSE IF parsed = ValueError THEN now
       ELSE parsed

\* the folder names of ensure_folder_structure(year, month) and new_name
archive_target(data, now) ==
    LET date == fecha_obj(data, now)
        year == ZeroPad(IntStr(date.year), 4)
        month == ZeroPad(IntStr(date.month), 2)
        numero_form == IF "numero_formulario" \in DOMAIN data
                       THEN Str(data["numero_formulario"])
                       ELSE <<"S", "i", "n", "N", "u", "m", "e", "r", "o">>
        solicitante == IF "solicitante" \in DOMAIN data
                       THEN Str(data["solicitante"])
                       ELSE <<"D", "e", "s", "c", "o", "n", "o", "c", "i", "d", "o">>
    IN [folder |-> <<DRIVE_ROOT_FOLDER, year, month>>,
        name |-> strftime(date) \o <<"_", "F", "o", "r", "m", "-">> \o numero_form \o <<"_">>
                     \o clean_solicitante(solicitante) \o <<".", "x", "l", "s", "x">>]

\* file_info = self.drive_service.archive_form(temp_file, form_data) and
\* form_data['archivo_original'] = ..., every call to the API answering
ArchiveCells ==
    /\ pc = "archive"
    /\ parser.pc = "returned"
    /\ \E now \in Clock :
          LET target == archive_target(parser.result, now)
          IN /\ folders' = ensure_folder_structure(folders, target.folder[2],
                                                   target.folder[3]).folders
             /\ driveFiles' = Append(driveFiles, target)
    /\ driveFolders' = DriveFolderDepth
    /\ form_data' = [form_data EXCEPT !.archivo_original = "webViewLink"]
    /\ att' = Logged("archive", "ok")
    /\ pc' = "notify"
    /\ UNCHANGED <<workbook, parser, attachment, mailboxVars, sheet, tempFiles,
                   openWorkbooks, temp_file, exc, countVars, run, queue, i, critical,
                   exit_code, attempts, failures, rows_added, parts, procs>>

ParserSpec ==
    ParserInit /\ [][LoadWorkbook \/ IdentifyFormType \/ ExtractHeaderData \/ ExtractItemsData \/ BuildResult \/ ParseReturns \/ AppendRowCells \/ ArchiveCells]_vars

\* ==================================== append_rows called by several runs
\* Every run has its own SheetsService and its own form_data; the sheet is
\* the one thing they share.  With run = 1 the calls are those of the one
\* loop of process_emails, each made when the one before has ended; with
\* run > 1 each call belongs to a run of its own.
NumProcs == 2          \* calls of append_rows in flight

Procs == 1..NumProcs

RaceInit ==
    /\ procs \in [Procs -> {[pc |-> "called", form_data |-> s, exc |-> "none"] :
                               s \in {ParseResult(FormA, FILE_NAME),
                                       ParseResult(FormB, FILE_NAME)}}]
    /\ run \in {1, NumProcs}
    /\ sheet = <<SHEET_HEADER_ROW>>
    /\ att = <<>>
    /\ failures = 0
    /\ attachment = [m \in Msgs |-> FormA]
    /\ labels = [m \in Msgs |-> {}]
    /\ unread = [m \in Msgs |-> TRUE]
    /\ labelNames = {}
    /\ driveFolders = 0
    /\ driveFiles = <<>>
    /\ tempFiles = {}
    /\ openWorkbooks = {}
    /\ pc = "append"
    /\ queue = <<>>
    /\ i = 0
    /\ temp_file = None
    /\ form_data = NoForm
    /\ exc = "none"
    /\ processed_count = 0
    /\ error_count = 0
    /\ duplicate_count = 0
    /\ critical = FALSE
    /\ exit_code = -1
    /\ attempts = <<>>
    /\ workbook = <<>>
    /\ parser = <<>>
    /\ rows_added = 0
    /\ folders = <<>>
    /\ parts = <<>>

raceFrame ==
    <<attachment, mailboxVars, driveFolders, driveFiles, localVars, exc, countVars,
      run, pc, queue, i, critical, exit_code, attempts, workbook, parser, rows_added,
      parts, folders>>

\* the for loop of one run enters a message when the one before has ended
Turn(p) == run > 1 \/ \A q \in 1..(p - 1) : procs[q].pc \in {"returned", "raised"}

\* Mutant of RunCheck: the call to check_duplicate is left out.
RunCheck_Skipped(p) ==
    /\ procs[p].pc = "called"
    /\ Turn(p)
    /\ procs' = [procs EXCEPT ![p].pc = "checked"]
    /\ att' = Append(att, <<"check", p>>)
    /\ UNCHANGED <<sheet, failures, raceFrame>>

\* if self.check_duplicate(form_data['numero_formulario']): raise ...
RunCheck(p) ==
    /\ procs[p].pc = "called"
    /\ Turn(p)
    /\ \/ /\ check_duplicate(sheet, procs[p].form_data.numero_formulario)
          /\ procs' = [procs EXCEPT ![p].pc = "raised",
                                    ![p].exc = "FormularioDuplicadoError"]
          /\ UNCHANGED failures
       \/ /\ ~check_duplicate(sheet, procs[p].form_data.numero_formulario)
          /\ procs' = [procs EXCEPT ![p].pc = "checked"]
          /\ UNCHANGED failures
       \/ /\ CanFail
          /\ failures' = failures + 1
          /\ procs' = [procs EXCEPT ![p].pc = "raised", ![p].exc = "GoogleAPIError"]
    /\ att' = Append(att, <<"check", p>>)
    /\ UNCHANGED <<sheet, raceFrame>>

\* rows = self._prepare_rows(form_data); values().append(...).execute()
RunAppend(p) ==
    /\ procs[p].pc = "checked"
    /\ \/ /\ sheet' = sheet \o prepare_rows(procs[p].form_data)
          /\ procs' = [procs EXCEPT ![p].pc = "returned"]
          /\ att' = Append(att, <<"append", p>>)
          /\ UNCHANGED failures
       \/ /\ CanFail
          /\ failures' = failures + 1
          /\ procs' = [procs EXCEPT ![p].pc = "raised", ![p].exc = "GoogleAPIError"]
          /\ UNCHANGED <<sheet, att>>
    /\ UNCHANGED raceFrame

RaceSpec == RaceInit /\ [][\E p \in Procs : RunCheck(p) \/ RunAppend(p)]_vars

\* ================================================== an interrupted run
\* KeyboardInterrupt is no Exception: no except clause of a handler or of
\* process_emails catches it.  It leaves the flow of the message through the
\* finally clause of _process_single_email, which deletes the temporary
\* file, and run() returns 130.  It may arrive between any two steps.
EXIT_INTERRUPTED == 130

Interrupt ==
    /\ pc # "idle"
    /\ tempFiles' = IF temp_file # None /\ temp_file \in tempFiles
                    THEN tempFiles \ {temp_file}
                    ELSE tempFiles
    /\ temp_file' = None
    /\ openWorkbooks' = {}
    /\ exit_code' = EXIT_INTERRUPTED
    /\ pc' = "idle"
    /\ UNCHANGED <<attachment, workbook, parser, detailVars, mailboxVars, storeVars,
                   form_data, exc, countVars, run, queue, i, critical, failures,
                   attempts, att>>

InterruptSpec == Init /\ [][Next \/ Interrupt]_vars

\* ======================================== download_attachment, part by part
MaxParts == 2          \* parts in the payload of the message

\* filename.endswith(suffix)
EndsWith(s, suffix) ==
    /\ Len(s) >= Len(suffix)
    /\ SubSeq(s, Len(s) - Len(suffix) + 1, Len(s)) = suffix

XLSX_SUFFIX == <<".", "x", "l", "s", "x">>

\* a part of payload.parts; filename: part.get('filename', ''), a body part
\* has none; withId: part['body'] has an attachmentId, the data of the part
\* is inline otherwise
MessageParts ==
    {[filename |-> f, withId |-> b] :
        f \in {<<>>, <<"a", ".", "x", "l", "s", "x">>, <<"b", ".", "x", "l", "s", "x">>,
               <<"c", ".", "p", "d", "f">>, <<"d", ".", "X", "L", "S", "X">>},
        b \in BOOLEAN}

RECURSIVE PartLists(_)
PartLists(n) ==
    IF n = 0 THEN {<<>>}
    ELSE PartLists(n - 1)
         \cup {Append(s, p) : s \in {t \in PartLists(n - 1) : Len(t) = n - 1},
                              p \in MessageParts}

\* the message of the run has been entered by the loop of process_emails
FetchInit ==
    /\ parts \in PartLists(MaxParts)
    /\ pc = "fetch"
    /\ run = 1
    /\ queue = <<1>>
    /\ i = 1
    /\ attempts = <<1>>
    /\ att = <<>>
    /\ sheet = <<SHEET_HEADER_ROW>>
    /\ attachment = [m \in Msgs |-> FormA]
    /\ labels = [m \in Msgs |-> {}]
    /\ unread = [m \in Msgs |-> TRUE]
    /\ labelNames = {}
    /\ driveFolders = 0
    /\ driveFiles = <<>>
    /\ tempFiles = {}
    /\ openWorkbooks = {}
    /\ temp_file = None
    /\ form_data = NoForm
    /\ exc = "none"
    /\ processed_count = 0
    /\ error_count = 0
    /\ duplicate_count = 0
    /\ critical = FALSE
    /\ exit_code = -1
    /\ failures = 0
    /\ workbook = <<>>
    /\ parser = <<>>
    /\ rows_added = 0
    /\ folders = <<>>
    /\ procs = <<>>

\* temp_file, original_filename = download_attachment(message_id); the file
\* written is named by the position of its part.  get_message_details and
\* attachments().get are the calls that may fail.
DownloadPart ==
    /\ pc = "fetch"
    \* the parts the for loop downloads from: .xlsx file name and an attachmentId
    /\ LET found == {k \in 1..Len(parts) : /\ EndsWith(parts[k].filename, XLSX_SUFFIX)
                                           /\ parts[k].withId}
       IN \/ /\ found # {}
             /\ tempFiles' = tempFiles \cup {Min(found)}
             /\ temp_file' = Min(found)
             /\ att' = Logged("fetch", "ok")
             /\ pc' = "parse"
             /\ UNCHANGED <<exc, failures>>
          \/ /\ found = {}
             /\ exc' = "AdjuntoNoEncontradoError"
             /\ att' = Logged("fetch", "fail")
             /\ pc' = "cleanup"
             /\ UNCHANGED <<tempFiles, temp_file, failures>>
          \/ /\ CanFail
             /\ failures' = failures + 1
             /\ exc' \in ApiFailures
             /\ att' = Logged("fetch", "fail")
             /\ pc' = "cleanup"
             /\ UNCHANGED <<tempFiles, temp_file>>
    /\ UNCHANGED <<mailboxVars, storeVars, openWorkbooks, form_data, countVars, runVars>>

\* the flow of the message up to its counter; a downloaded file is parsed
\* in ParserSpec
FetchSpec ==
    FetchInit /\ [][DownloadPart \/ Cleanup \/ ErrorNotify \/ ErrorLabel \/ ErrorMarkRead \/ Count]_vars
\* ======================================== several messages, one after another
\* The stores over the messages of a run: each message is parsed as in
\* ParserSpec, persisted and archived, and the loop goes on with the next.
MaxForms == 2            \* messages of the run

\* the forms attached: COMPRAS sheets of one item that differ in number and date
StoreWorkbooks ==
    {Workbook(ComprasTitle,
              HeaderCells(form[1], form[2], Text(<<"J", "a", "n", "e", " ", "D", "o", "e">>))
              @@ ItemCells(<<Number(1)>>, Text(<<" ", "P", "a", "p", "e", "r", " ">>))) :
        form \in {<<Text(<<" ", "R", "6", "0", "-", "0", "0", "1", " ">>), A_DATE>>,
                  <<Text(<<"R", "6", "0", "-", "0", "0", "1", "\t">>), Text(<<"2", "0", "2", "3", "-", "7", "-", "4">>)>>,
                  <<Text(<<"R", "6", "0", "-", "0", "0", "2">>), A_DATE>>,
                  <<Number(60), NoneValue>>,
                  <<Text(<<"N", "º", " ", "F", "o", "r", "m", "u", "l", "a", "r", "i", "o">>), Text(<<"2", "0", "2", "3", "-", "1", "2", "-", "1">>)>>,
                  <<Text(<<"R", "6", "0", "-", "0", "0", "3">>), Text(<<"2", "0", "2", "4", "-", "0", "2", "-", "3", "0">>)>>}}

\* the sheet holds the header row ensure_header_exists wrote, alone or with a
\* row typed in by hand; the Drive is empty or holds the folder of the bot
StoreInit ==
    /\ workbook \in StoreWorkbooks
    /\ parser = [pc |-> "new", form_type |-> Unclassified, content_read |-> FALSE,
                 header_data |-> <<>>, items |-> <<>>, last_row |-> 0, result |-> <<>>,
                 error |-> [kind |-> "none"], calls |-> <<>>]
    /\ sheet \in {<<[c \in 1..Len(SHEET_HEADERS) |-> Text(SHEET_HEADERS[c])]>>,
                  <<[c \in 1..Len(SHEET_HEADERS) |-> Text(SHEET_HEADERS[c])],
                    <<Text(<<>>), Text(<<" ", "6", "0", " ">>), Text(<<"6", "1">>)>>>>}
    /\ folders \in {<<>>, <<[name |-> DRIVE_ROOT_FOLDER, parent |-> ROOT_FOLDER_ID]>>}
    /\ attachment = [m \in Msgs |-> FormA]
    /\ labels = [m \in Msgs |-> {}]
    /\ unread = [m \in Msgs |-> TRUE]
    /\ labelNames = {}
    /\ driveFolders = 0
    /\ driveFiles = <<>>
    /\ tempFiles = {1}
    /\ openWorkbooks = {}
    /\ run = 1
    /\ pc = "parse"
    /\ queue = <<1>>
    /\ i = 1
    /\ temp_file = 1
    /\ form_data = NoForm
    /\ exc = "none"
    /\ processed_count = 0
    /\ error_count = 0
    /\ duplicate_count = 0
    /\ critical = FALSE
    /\ exit_code = -1
    /\ failures = 0
    /\ attempts = <<1>>
    /\ att = <<<<"fetch", "ok">>>>
    /\ rows_added = 0
    /\ parts = <<>>
    /\ procs = <<>>

\* the rest of the flow of a message leaves the stores as they are; the for
\* loop of process_emails enters the next message, whose file is parsed
NextForm ==
    /\ pc \in {"notify", "cleanup"}
    /\ i < MaxForms
    /\ i' = i + 1
    /\ workbook' \in StoreWorkbooks
    /\ parser' = [pc |-> "new", form_type |-> Unclassified, content_read |-> FALSE,
                  header_data |-> <<>>, items |-> <<>>, last_row |-> 0, result |-> <<>>,
                  error |-> [kind |-> "none"], calls |-> <<>>]
    /\ pc' = "parse"
    /\ form_data' = NoForm
    /\ exc' = "none"
    /\ att' = <<<<"fetch", "ok">>>>
    /\ rows_added' = 0
    /\ UNCHANGED <<attachment, mailboxVars, storeVars, tempFiles, openWorkbooks,
                   temp_file, countVars, run, queue, critical, exit_code, attempts,
                   failures, parts, procs, folders>>

StoreSpec ==
    StoreInit /\ [][LoadWorkbook \/ IdentifyFormType \/ ExtractHeaderData \/ ExtractItemsData \/ BuildResult \/ ParseReturns \/ AppendRowCells \/ ArchiveCells \/ NextForm]_vars

\* =========================================================== claims
Did(step, result) == \E k \in 1..Len(att) : att[k] = <<step, result>>

RowCount(values, n) ==
    Cardinality({k \in 2..Len(values) : values[k].numero_formulario = n})

FormNumbers == {a.numero_formulario : a \in Attachments} \ {""}

MainSteps ==
    <<"fetch", "parse", "check", "append", "archive", "notify", "label", "markread">>
MainStepNames == {MainSteps[k] : k \in 1..Len(MainSteps)}
DuplicateSteps == {"dup_details", "dup_notify", "dup_label", "dup_markread"}
ErrorSteps == {"err_notify", "err_label", "err_markread"}
NotifySteps == {"notify", "dup_notify", "err_notify"}

IsMainStep(entry) == entry[1] \in MainStepNames
IsSentNotification(entry) == entry[1] \in NotifySteps /\ entry[2] = "ok"

\* the notifications sent for the current message, in order
Sent == SelectSeq(att, IsSentNotification)

\* the positions between two messages and between two runs
AttemptOver == pc = "next"

\* C1: after process_emails completes, every message returned by the search
\* carries exactly one of the three status labels, whichever external call
\* failed while it was processed.
C1_ExactlyOneStatusLabel ==
    (pc = "done" /\ ~critical) =>
        \A k \in 1..Len(queue) :
            Cardinality(labels[queue[k]] \cap StatusLabels) = 1

C2_Step ==
    /\ \A n \in FormNumbers :
          /\ RowCount(sheet, n) > 0 => RowCount(sheet', n) = RowCount(sheet, n)
          /\ RowCount(sheet', n) > RowCount(sheet, n) =>
                /\ pc = "append"
                /\ n = attachment[message_id].numero_formulario
                /\ RowCount(sheet', n) = attachment[message_id].nitems
    /\ (pc = "check" /\ RowCount(sheet, form_data.numero_formulario) > 0) =>
          /\ pc' = "cleanup"
          /\ exc' \in {"FormularioDuplicadoError"} \cup ApiFailures
          /\ (exc' = "FormularioDuplicadoError" <=> att' = Logged("check", "duplicate"))
    /\ (AttemptOver /\ exc = "none") =>
          /\ Did("append", "ok")
          /\ RowCount(sheet, form_data.numero_formulario) = form_data.nitems

C3_Step ==
    (Did("check", "duplicate") /\ pc \notin {"next", "done", "idle"}) =>
        /\ sheet' = sheet
        /\ driveFiles' = driveFiles
        /\ driveFolders' = driveFolders
        /\ pc' \in DuplicateSteps \cup {"count", "next"}
        /\ labels'[message_id] \subseteq labels[message_id] \cup {LABEL_DUPLICATE}
        /\ att'[Len(att')][1] \in DuplicateSteps \cup {"cleanup"}

\* C3: when the duplicate check finds the submission number, no row is
\* appended and no file is uploaded for that message, before or after the
\* check; the only steps that follow are the cleanup and those of the
\* duplicate handler (Duplicate notification, Duplicate label, mark read).
C3_DuplicateShortCircuits ==
    /\ [](Did("check", "duplicate") =>
            /\ ~Did("append", "ok")
            /\ ~Did("archive", "ok")
            /\ ~Did("notify", "ok"))
    /\ [][C3_Step]_vars

C3_Witness ==
    /\ AttemptOver
    /\ Did("check", "duplicate")
    /\ Did("dup_notify", "ok")
    /\ LABEL_DUPLICATE \in labels[message_id]

\* C4: any exception raised while fetching, extracting, checking, persisting
\* or archiving takes the Failure branch: a Failure notification is sent and
\* the message is given the Error label and marked read.
C4_FailureBranchTaken ==
    (/\ AttemptOver
     /\ \E s \in {"fetch", "parse", "check", "append", "archive"} : Did(s, "fail")) =>
        /\ Did("err_notify", "ok")
        /\ LABEL_ERROR \in labels[message_id]
        /\ ~unread[message_id]

\* C5: process_emails attempts every message of the search exactly once, one
\* at a time and in the order returned; no failure of a step or of a handler
\* for one message keeps the following messages from being attempted.
C5_EveryMessageAttemptedInOrder ==
    /\ pc \notin {"idle", "done"} =>
          /\ i \in 1..Len(queue)
          /\ attempts = SubSeq(queue, 1, i)
    /\ pc = "done" => attempts = queue
    /\ \A j, k \in 1..Len(attempts) : attempts[j] = attempts[k] => j = k

C5_Witness ==
    /\ pc = "done"
    /\ Len(queue) = 2
    /\ attempts = queue
    /\ failures > 0
    /\ labels[queue[1]] = {}
    /\ unread[queue[1]]

\* C6: the steps of the per-message flow happen only in the order fetch,
\* extract, duplicate check, append, archive, success notification, Processed
\* label, mark read; a step runs only if all earlier ones succeeded and none
\* runs after the first one that fails.
C6_StepsInOrderUntilFirstFailure ==
    LET main == SelectSeq(att, IsMainStep)
    IN /\ Len(main) <= Len(MainSteps)
       /\ \A k \in 1..Len(main) :
             /\ main[k][1] = MainSteps[k]
             /\ k < Len(main) => main[k][2] = "ok"

C6_Witness ==
    /\ AttemptOver
    /\ Did("append", "ok")
    /\ Did("archive", "fail")
    /\ ~Did("notify", "ok")

\* C7: a temporary copy of the attachment that was created no longer exists
\* when the next message starts or the run ends, on every exit path: success,
\* duplicate, and a failure of parse, persist, archive, notify or label.
C7_TempFileDeleted ==
    pc \in {"fetch", "count", "next", "done", "idle"} \cup DuplicateSteps \cup ErrorSteps =>
        tempFiles = {}

C7_Witness ==
    /\ AttemptOver
    /\ Did("fetch", "ok")
    /\ Did("archive", "fail")
    /\ tempFiles = {}

\* C8: the workbook opened by the parser is closed on every exit path of
\* parse, also when classification, header extraction, item extraction or the
\* empty-item-table check raises.
C8_WorkbookClosedOnEveryExit ==
    pc # "parse" => openWorkbooks = {}

\* C9: at the end of every message's attempt, whatever its outcome, the
\* message has a status label and is marked read, so no labeled message is
\* returned by a later unread-only search.
C9_LabeledAndReadAfterAttempt ==
    AttemptOver =>
        /\ labels[message_id] \cap StatusLabels # {}
        /\ ~unread[message_id]

\* C10: for every processed message exactly one notification is sent, and its
\* template is the one of the message's final label: Success iff Processed,
\* Duplicate iff Duplicate, Failure iff Error.
C10_OneNotificationMatchingOutcome ==
    AttemptOver =>
        /\ Len(Sent) = 1
        /\ (Sent[1][1] = "notify" <=> LABEL_PROCESSED \in labels[message_id])
        /\ (Sent[1][1] = "dup_notify" <=> LABEL_DUPLICATE \in labels[message_id])
        /\ (Sent[1][1] = "err_notify" <=> LABEL_ERROR \in labels[message_id])

\* the status label process_emails' counter for an outcome stands for
CounterLabel(e) ==
    IF e = "none" THEN LABEL_PROCESSED
    ELSE IF e = "FormularioDuplicadoError" THEN LABEL_DUPLICATE
    ELSE LABEL_ERROR

\* C11: when a message's attempt is over, the three counters sum to the
\* number of messages attempted so far (so to the number of messages when
\* process_emails completes), and the counter incremented for the message is
\* the one of the single status label the message carries.
C11_CountersPartitionByLabel ==
    /\ AttemptOver =>
          /\ processed_count + duplicate_count + error_count = i
          /\ labels[message_id] \cap StatusLabels = {CounterLabel(exc)}
    /\ (pc = "done" /\ ~critical) =>
          processed_count + duplicate_count + error_count = Len(queue)

\* ------------------------------------------- claims about the parser
Called(method) == \E k \in 1..Len(parser.calls) : parser.calls[k] = method

\* the variants (positions in the registry) with a keyword in a text
KeywordIn(k, text) ==
    \E j \in 1..Len(FORM_TYPE_KEYWORDS[k].keywords) :
        Contains(Lower(FORM_TYPE_KEYWORDS[k].keywords[j]), text)

Registry == 1..Len(FORM_TYPE_KEYWORDS)
RegisteredVariants == {FORM_TYPE_KEYWORDS[k].form_type : k \in Registry}

NameHits == {k \in Registry : KeywordIn(k, Lower(workbook.title))}

\* the lower-cased text of each non-empty cell of the first 10 rows
CellTexts ==
    {Lower(Str(CellAt(workbook, <<COLUMNS[c], r>>))) :
        <<c, r>> \in {cr \in (1..Len(COLUMNS)) \X (1..CONTENT_MAX_ROW) :
                        Truthy(CellAt(workbook, <<COLUMNS[cr[1]], cr[2]>>))}}

CellHits == {k \in Registry : \E text \in CellTexts : KeywordIn(k, text)}

Unrecognized == parser.error.kind = "TipoFormularioNoReconocidoError"

\* C12 (as stated): whenever the sheet name contains a keyword of a variant,
\* classification returns that variant.
C12_NameKeywordGivesItsVariant ==
    Called("_identify_form_type") =>
        \A k \in NameHits : parser.form_type = FORM_TYPE_KEYWORDS[k].form_type

\* C12 (amended): whenever the sheet name contains, in any case, a keyword of
\* a variant and no keyword of a variant registered before it, classification
\* returns that variant, whatever the cells hold.
C12_NameKeywordOfFirstVariantWins ==
    Called("_identify_form_type") =>
        \A k \in NameHits :
            (\A u \in Registry : u < k => u \notin NameHits) =>
                /\ parser.form_type = FORM_TYPE_KEYWORDS[k].form_type
                /\ ~Unrecognized

C12_Witness ==
    /\ Called("_identify_form_type")
    /\ workbook.title = ServiciosTitle
    /\ 3 \in CellHits
    /\ parser.form_type = "SERVICIOS"

\* C13: when the sheet name holds a keyword, the first variant in registry
\* order with a keyword in the name is returned and the cells are not read;
\* otherwise the first variant in registry order with a keyword in the text
\* of a cell of the first rows is returned.
C13_FirstVariantInRegistryOrder ==
    Called("_identify_form_type") =>
        /\ NameHits # {} =>
              /\ parser.form_type = FORM_TYPE_KEYWORDS[Min(NameHits)].form_type
              /\ ~parser.content_read
        /\ (NameHits = {} /\ CellHits # {}) =>
              /\ parser.content_read
              /\ parser.form_type = FORM_TYPE_KEYWORDS[Min(CellHits)].form_type

\* C14: classification raises TipoFormularioNoReconocidoError, and sets no
\* variant, exactly when no keyword occurs in the sheet name nor in the text
\* of a cell of the first 10 rows.
C14_UnrecognizedIffNoKeyword ==
    Called("_identify_form_type") =>
        /\ Unrecognized <=> (NameHits = {} /\ CellHits = {})
        /\ Unrecognized => parser.form_type = Unclassified

\* an empty cell, or a text cell of whitespace only
IsBlank(value) ==
    \/ value.t = "None"
    \/ value.t = "str" /\ \A k \in 1..Len(value.v) : value.v[k] \in WHITESPACE

ItemsStartRow == FORM_TYPE_MAPPINGS[parser.form_type].items_start_row
ItemsColumns == FORM_TYPE_MAPPINGS[parser.form_type].items_columns
KeyCell(r) == CellAt(workbook, <<Get(ItemsColumns, "numero_item"), r>>)

\* the first row at or after items_start_row whose key cell is empty
FirstBlankKeyRow ==
    Min({r \in ItemsStartRow..(ItemsStartRow + FILLED_ROWS) : IsBlank(KeyCell(r))})

\* C15: the items extracted are exactly the rows items_start_row .. k-1, one
\* per row in ascending row order, k being the first row at or after
\* items_start_row whose key cell is empty.
C15_ItemsAreRowsBeforeFirstEmptyKey ==
    Called("_extract_items_data") =>
        /\ Len(parser.items) = FirstBlankKeyRow - ItemsStartRow
        /\ \A j \in 1..Len(parser.items) :
              parser.items[j] =
                  extract_item_row(workbook, ItemsStartRow + j - 1, ItemsColumns)

\* the one rule of the specification for a raw cell value
Normalised(value) ==
    IF value.t = "None" THEN Text(<<>>)
    ELSE IF value.t = "datetime" THEN Text(strftime(value))
    ELSE IF value.t = "int" THEN Number(value.v)
    ELSE Text(Strip(value.v))

\* C16: every header field and every item field extracted is the cell's
\* value under one rule: empty gives "", a date its YYYY-MM-DD string, a
\* number the same number (not a string), a text the stripped text.
C16_OneNormalisationRule ==
    /\ parser.pc \in {"header", "items", "returned"} =>
          \A k \in 1..Len(HEADER_MAPPING_COMMON) :
              parser.header_data[HEADER_MAPPING_COMMON[k][1]] =
                  Normalised(CellAt(workbook, HEADER_MAPPING_COMMON[k][2]))
    /\ Called("_extract_items_data") =>
          \A j \in 1..Len(parser.items) :
              \A k \in 1..Len(ItemsColumns) :
                  parser.items[j][ItemsColumns[k][1]] =
                      Normalised(CellAt(workbook,
                                        <<ItemsColumns[k][2], ItemsStartRow + j - 1>>))

NumberCell == CellAt(workbook, <<"D", 2>>)
RequesterCell == CellAt(workbook, <<"D", 4>>)
MissingField == parser.error.kind = "CampoObligatorioError"

\* C17: when a mandatory header cell of a classified sheet is empty, parse
\* raises CampoObligatorioError naming an empty mandatory field, the item
\* table is never scanned and ItemsVaciosError is never raised, whether the
\* item table is empty or not.
C17_HeaderCheckBeforeItems ==
    (Called("_extract_header_data") /\ (IsBlank(NumberCell) \/ IsBlank(RequesterCell))) =>
        /\ MissingField
        /\ parser.pc = "raised"
        /\ parser.error.campo = "numero_formulario" => IsBlank(NumberCell)
        /\ parser.error.campo = "solicitante" => IsBlank(RequesterCell)
        /\ parser.error.campo \in {"numero_formulario", "solicitante"}
        /\ ~Called("_extract_items_data")
        /\ parser.items = <<>>
        /\ parser.last_row = 0
        /\ exc \in {"none", "CampoObligatorioError"}
        /\ pc # "check"

C17_Witness ==
    /\ pc = "cleanup"
    /\ exc = "CampoObligatorioError"
    /\ ~IsBlank(NumberCell)
    /\ IsBlank(RequesterCell)
    /\ ~IsBlank(CellAt(workbook, <<"A", 10>>))
    /\ parser.error.campo = "solicitante"

\* C18: when the mandatory header fields are present and the item scan
\* returns no row, parse raises ItemsVaciosError carrying the submission
\* number extracted from the header, and no Submission reaches the caller.
C18_EmptyItemTableRaises ==
    (Called("_extract_items_data") /\ parser.pc \in {"raised", "returned"}
        /\ parser.items = <<>>) =>
        /\ parser.pc = "raised"
        /\ parser.error.kind = "ItemsVaciosError"
        /\ parser.error.numero_formulario = parser.header_data["numero_formulario"]
        /\ parser.error.numero_formulario = Text(Strip(Str(NumberCell)))
        /\ parser.error.numero_formulario # Text(<<>>)
        /\ parser.result = <<>>
        /\ form_data = NoForm
        /\ pc # "check"
        /\ exc \in {"none", "ItemsVaciosError"}

C18_Witness ==
    /\ pc = "cleanup"
    /\ exc = "ItemsVaciosError"
    /\ parser.error.numero_formulario = Text(<<"R", "6", "0", "-", "0", "0", "1">>)
    /\ IsBlank(KeyCell(10))
    /\ ~IsBlank(KeyCell(11))

\* C19: _extract_header_data raises CampoObligatorioError exactly when the
\* submission number cell or the requester cell is empty or whitespace-only;
\* the error names the submission number with D2 when that cell is empty,
\* and otherwise the requester with D4.
C19_FirstMissingFieldNamed ==
    Called("_extract_header_data") =>
        IF IsBlank(NumberCell)
        THEN /\ MissingField
             /\ parser.error.campo = "numero_formulario"
             /\ parser.error.celda = <<"D", 2>>
        ELSE IF IsBlank(RequesterCell)
        THEN /\ MissingField
             /\ parser.error.campo = "solicitante"
             /\ parser.error.celda = <<"D", 4>>
        ELSE /\ ~MissingField
             /\ parser.header_data # <<>>

C19_Witness ==
    /\ parser.pc = "raised"
    /\ IsBlank(NumberCell)
    /\ IsBlank(RequesterCell)
    /\ NumberCell # RequesterCell
    /\ parser.error.campo = "numero_formulario"
    /\ parser.error.celda = <<"D", 2>>

ValidSubmission(s) ==
    /\ s.nitems >= 1
    /\ s.numero_formulario.t = "str"
    /\ s.numero_formulario.v # <<>>
    /\ s.solicitante.t = "str"
    /\ s.solicitante.v # <<>>
    /\ s.tipo_formulario \in RegisteredVariants

\* C20: every result parse returns has at least one item, a non-empty
\* submission number, a non-empty requester and a registered variant, and
\* the caller goes on to the duplicate check only with such a record; when
\* parse raises, no record is bound.
C20_OnlyValidSubmissionsReturned ==
    /\ parser.pc = "returned" => ValidSubmission(Submission(parser.result))
    /\ pc = "check" =>
          /\ parser.pc = "returned"
          /\ form_data = Submission(parser.result)
          /\ ValidSubmission(form_data)
    /\ pc = "cleanup" => (parser.pc = "raised" /\ form_data = NoForm)

C20_Witness ==
    /\ pc = "check"
    /\ form_data.nitems = 2
    /\ form_data.tipo_formulario = "SERVICIOS"
    /\ form_data.numero_formulario = Text(<<"R", "6", "0", "-", "0", "0", "1">>)

\* ---------------------------------------------------------------- C21
SameValue(a, b) == a.t = b.t /\ a = b

RowHolds(row, value) == \E j \in 1..Len(row) : SameValue(row[j], value)

\* the rows append_rows wrote: the sheet held its header row only
RowsWritten == SubSeq(sheet, 2, Len(sheet))

\* C21: Persist appends exactly one row for each LineItem, in item order,
\* each row holds every header field value extracted for the submission and
\* every field value of its item, and the count returned is the number of
\* LineItems.
C21_OneFullRowPerItem ==
    (pc = "archive" /\ parser.pc = "returned") =>
        LET items == parser.result["items"]
        IN /\ Len(RowsWritten) = Len(items)
           /\ rows_added = Len(items)
           /\ \A k \in 1..Len(items) :
                /\ \A f \in DOMAIN parser.header_data :
                       RowHolds(RowsWritten[k], parser.header_data[f])
                /\ \A f \in DOMAIN items[k] : RowHolds(RowsWritten[k], items[k][f])

\* ---------------------------------------------------------------- C22
\* the place in the history of the sheet of the call p made
Event(step, p) == CHOOSE k \in 1..Len(att) : att[k] = <<step, p>>

Wrote(p) == procs[p].pc = "returned"

SameNumber(p, q) ==
    procs[p].form_data.numero_formulario = procs[q].form_data.numero_formulario

WroteTwice(p, q) == p # q /\ Wrote(p) /\ Wrote(q) /\ SameNumber(p, q)

\* C22: the check and the append are not one atomic step: rows of one
\* submission number are written twice only by two runs working at once
\* that both passed the check before either appended; the calls of a
\* single sequential run never write a number twice.
C22_WrittenTwiceOnlyByConcurrentRuns ==
    \A p, q \in Procs :
        WroteTwice(p, q) =>
            /\ run > 1
            /\ Event("check", p) < Event("append", q)
            /\ Event("check", q) < Event("append", p)

\* two runs have written the rows of the same submission
C22_Witness ==
    \E p, q \in Procs :
        /\ WroteTwice(p, q)
        /\ RowCount(sheet, procs[p].form_data.numero_formulario)
               = 2 * procs[p].form_data.nitems

\* ---------------------------------------------------------------- C23
HasStatusLabel(m) == labels[m] \cap StatusLabels # {}

\* C23: when a run is interrupted, every message that has a status label is
\* in its final state, labeled and read, every message without one is still
\* unread, and no submission number has its rows in the sheet twice.
C23_InterruptLeavesFinalOrUntouched ==
    (pc = "idle" /\ exit_code = EXIT_INTERRUPTED /\ failures = 0) =>
        /\ \A m \in Msgs : HasStatusLabel(m) => ~unread[m]
        /\ \A m \in Msgs : ~HasStatusLabel(m) => unread[m]
        /\ \A m \in Msgs :
              ParseError(attachment[m]) = "none" =>
                  RowCount(sheet, attachment[m].numero_formulario)
                      <= attachment[m].nitems

\* ---------------------------------------------------------------- C24
\* the parts whose file name matches the filter
Matching == {k \in 1..Len(parts) : EndsWith(parts[k].filename, XLSX_SUFFIX)}

Fetched == Did("fetch", "ok") \/ Did("fetch", "fail")

\* C24: Fetch returns the first part, in part order, whose file name matches
\* the .xlsx filter; when no part matches it fails with
\* AdjuntoNoEncontradoError, no temporary file is created and the message
\* takes the Failure branch.
C24_FirstMatchingPartOrNotFound ==
    (Fetched /\ failures = 0) =>
        IF Matching # {}
        THEN /\ Did("fetch", "ok")
             /\ pc = "parse" => (temp_file = Min(Matching) /\ tempFiles = {temp_file})
        ELSE /\ exc = "AdjuntoNoEncontradoError"
             /\ tempFiles = {}
             /\ pc \in {"cleanup", "err_notify", "err_label", "err_markread", "count",
                        "next"}

\* ---------------------------------------------------------------- C25
\* C25: a failure to open the spreadsheet file, whatever was raised, leaves
\* parse as ArchivoExcelInvalidoError and as no other kind, and then no
\* classification, header or item extraction step has run.
C25_OpenFailureIsInvalidSpreadsheet ==
    (~workbook.loadable /\ Called("_load_workbook")) =>
        /\ parser.pc = "raised"
        /\ parser.error.kind = "ArchivoExcelInvalidoError"
        /\ parser.error.detalle = workbook.failure
        /\ parser.calls = <<"_load_workbook">>
        /\ exc \in {"none", "ArchivoExcelInvalidoError"}
        /\ form_data = NoForm
        /\ pc \in {"parse", "cleanup"}

\* a file that is no zip archive has reached the boundary of the message
C25_Witness ==
    /\ ~workbook.loadable
    /\ workbook.failure = "BadZipFile"
    /\ pc = "cleanup"
    /\ exc = "ArchivoExcelInvalidoError"

\* ---------------------------------------------------------------- C26
\* the days a form may be dated
Calendar ==
    {date \in {Date(y, m, d) : y \in 2023..2024, m \in 1..12, d \in 1..31} :
        date.day <= DaysInMonth(date.year, date.month)}

\* the texts that are the date written as year-month-day
Writings(date) ==
    LET months == {IntStr(date.month), ZeroPad(IntStr(date.month), 2)}
        days == {IntStr(date.day), ZeroPad(IntStr(date.day), 2)}
                \cup (IF date.day < 10 THEN {<<" ">> \o IntStr(date.day)} ELSE {})
    IN {ZeroPad(IntStr(date.year), 4) \o <<"-">> \o mm \o <<"-">> \o dd :
            mm \in months, dd \in days}

\* every such text with the day it names
DateTexts == UNION {{<<text, date>> : text \in Writings(date)} : date \in Calendar}

NotUnderscore(c) == c # "_"
AlnumOrHyphen(c) == IsAlnum(c) \/ c = "-"

C27_ScanBoundedByThousandRows ==
    Called("_extract_items_data") =>
        /\ parser.error.kind # "none" => parser.error.kind = "ItemsVaciosError"
        /\ parser.last_row <= ItemsStartRow + MAX_ITEM_ROWS
        /\ Len(parser.items) <= MAX_ITEM_ROWS

\* ---------------------------------------------------------------- C28
DuplicateCounted ==
    /\ duplicate_count' = duplicate_count + 1
    /\ error_count' = error_count
    /\ processed_count' = processed_count

NoFailureNotification == ~Did("err_notify", "ok") /\ ~Did("err_notify", "fail")

C28_StepAsStated ==
    /\ (pc = "count" /\ exc = "FormularioDuplicadoError") =>
          /\ DuplicateCounted
          /\ Did("dup_notify", "ok")
          /\ NoFailureNotification
    /\ pc = "done" => (exit_code' = 0 <=> error_count = 0)

C28_Step ==
    /\ (pc = "count" /\ exc = "FormularioDuplicadoError") =>
          /\ DuplicateCounted
          /\ \/ Did("dup_notify", "ok")
             \/ Did("dup_details", "fail")
             \/ Did("dup_notify", "fail")
          /\ NoFailureNotification
    /\ (pc = "done" /\ ~critical) =>
          /\ exit_code' = 0 <=> error_count = 0
          /\ processed_count + duplicate_count = Len(queue) => exit_code' = 0

AssemblerErrors ==
    {"TipoFormularioNoReconocidoError", "CampoObligatorioError", "ItemsVaciosError",
     "ArchivoExcelInvalidoError"}

\* C29: each failure kind the assembler raises reaches the boundary of the
\* message as that kind and is handled as a recognised validation failure,
\* the Failure notification carrying the message of the error unchanged;
\* only errors outside the declared kinds take the unexpected-error branch
\* with its generic message.
C29_DeclaredKindsHandledAsValidation ==
    /\ (pc = "cleanup" /\ Did("parse", "fail")) =>
          /\ exc = ParseError(attachment[message_id])
          /\ exc \in AssemblerErrors
    /\ (pc = "err_notify" /\ exc \in AssemblerErrors) =>
          /\ ExceptClause(exc) = "validation"
          /\ error_message(exc) = <<exc>>
    /\ (pc = "err_notify" /\ ExceptClause(exc) = "unexpected") =>
          exc \notin AssemblerErrors

\* ---------------------------------------------------------------- C30
ScanStoppedBeforeBound ==
    /\ Called("_extract_items_data")
    /\ parser.last_row < ItemsStartRow + MAX_ITEM_ROWS

\* C30: before the row bound is reached the scan stops at row r iff the key
\* cell of row r is empty or whitespace-only; every other key value, text or
\* number, makes row r a LineItem and the scan goes on with row r + 1.
C30_ScanStopsIffKeyBlank ==
    ScanStoppedBeforeBound =>
        /\ IsBlank(KeyCell(parser.last_row))
        /\ \A r \in ItemsStartRow..(parser.last_row - 1) : ~IsBlank(KeyCell(r))
        /\ Len(parser.items) = parser.last_row - ItemsStartRow
        /\ \A k \in 1..Len(parser.items) :
              parser.items[k] =
                  extract_item_row(workbook, ItemsStartRow + k - 1, ItemsColumns)

\* ---------------------------------------------------------------- C31
ContentPassDone == Called("_identify_form_type") /\ parser.content_read

\* C31: the content pass tests the keywords against the text of the
\* non-empty cells of rows 1 to 10 with a separator between every two
\* consecutive cells, so a keyword matches only inside the text of one cell:
\* the pass returns the first registered variant with a keyword in the text
\* of a single cell of these rows, and raises when no cell holds a keyword.
C31_ContentKeywordWithinOneCell ==
    ContentPassDone =>
        /\ parser.form_type # Unclassified =>
              \E k \in CellHits : parser.form_type = FORM_TYPE_KEYWORDS[k].form_type
        /\ CellHits = {} => Unrecognized

\* ---------------------------------------------------------------- C32
\* the keywords as the classifier tests them, each with its variant
KeywordTable ==
    {<<k, Lower(FORM_TYPE_KEYWORDS[k].keywords[j])>> :
        <<k, j>> \in {kj \in Registry \X (1..4) :
                        kj[2] <= Len(FORM_TYPE_KEYWORDS[kj[1]].keywords)}}

\* no keyword of a variant is equal to, or inside, a keyword of another one
KeywordsApart ==
    \A a, b \in KeywordTable : a[1] # b[1] => ~Contains(a[2], b[2])

\* the keyword occurrences in a text: <<variant, keyword>> and its offset
Occurrences(text) ==
    {o \in KeywordTable \X (0..Len(text)) :
        /\ o[2] + Len(o[1][2]) <= Len(text)
        /\ SubSeq(text, o[2] + 1, o[2] + Len(o[1][2])) = o[1][2]}

\* the texts the two passes of the classifier test keywords against
ClassifiedTexts == {Lower(workbook.title)} \cup CellTexts

\* C32: no keyword of a variant is equal to, or a substring of, a keyword of
\* another variant, so the characters of one keyword occurrence in the
\* sheet name or in a cell never hold a keyword of a different variant.
C32_KeywordsOfVariantsDisjoint ==
    /\ KeywordsApart
    /\ \A text \in ClassifiedTexts : \A a, b \in Occurrences(text) :
          a[1][1] # b[1][1] =>
              ~(a[2] <= b[2] /\ b[2] + Len(b[1][2]) <= a[2] + Len(a[1][2]))

\* a sheet name with keywords of two variants has been classified
C32_Witness ==
    /\ Called("_identify_form_type")
    /\ Cardinality(NameHits) = 2
    /\ Cardinality(Occurrences(Lower(workbook.title))) >= 2

\* ---------------------------------------------------------------- C33
\* the column a header names, and the field of the submission it is for
ColumnOf(header) == CHOOSE c \in 1..Len(SHEET_HEADERS) : SHEET_HEADERS[c] = header
NamedFields ==
    <<<<<<"N", "º", " ", "F", "o", "r", "m", "u", "l", "a", "r", "i", "o">>, "numero_formulario">>, <<<<"T", "i", "p", "o", " ", "F", "o", "r", "m", "u", "l", "a", "r", "i", "o">>, "tipo_formulario">>,
      <<<<"S", "o", "l", "i", "c", "i", "t", "a", "n", "t", "e">>, "solicitante">>, <<<<"A", "r", "c", "h", "i", "v", "o", " ", "O", "r", "i", "g", "i", "n", "a", "l">>, "archivo_original">>>>

\* C33: every row append_rows writes has as many columns as SHEET_HEADERS
\* and holds, under each of the headers 'Nº Formulario', 'Tipo Formulario',
\* 'Solicitante' and 'Archivo Original', the field of the submission that
\* the header names.
C33_RowsFollowHeaderRow ==
    (pc = "archive" /\ parser.pc = "returned") =>
        \A k \in 1..Len(RowsWritten) :
            /\ Len(RowsWritten[k]) = Len(SHEET_HEADERS)
            /\ \A n \in 1..Len(NamedFields) :
                  /\ ColumnOf(NamedFields[n][1]) <= Len(RowsWritten[k])
                  /\ SameValue(RowsWritten[k][ColumnOf(NamedFields[n][1])],
                               GetOrEmpty(parser.result, NamedFields[n][2]))

\* ---------------------------------------------------------------- C34
\* the column of a row in which _prepare_rows puts the submission number
NumberColumn ==
    1 + CHOOSE c \in 1..Len(COMMON_COLUMNS) : COMMON_COLUMNS[c] = "numero_formulario"

\* a data row (never the header row) holds the number, whitespace aside
DataRowHolds(k, number) ==
    /\ k \in 2..Len(sheet)
    /\ Len(sheet[k]) >= NumberColumn
    /\ Strip(Str(sheet[k][NumberColumn])) = Strip(Str(number))

\* numbers looked up: the header of the column, numbers of the forms and of
\* the row typed in by hand, with and without whitespace around them
LookedUp ==
    {Text(<<"N", "º", " ", "F", "o", "r", "m", "u", "l", "a", "r", "i", "o">>), Text(<<"R", "6", "0", "-", "0", "0", "1">>), Text(<<" ", "R", "6", "0", "-", "0", "0", "2">>),
     Text(<<"6", "0">>), Text(<<"6", "1">>), Text(<<"R", "6", "0", "-", "0", "0", "9">>)}

C35_RowsOnlyOfSuccessfulMessages ==
    AttemptOver =>
        /\ Did("append", "ok") =>
              /\ exc = "none"
              /\ LABEL_PROCESSED \in labels[message_id]
              /\ Did("archive", "ok")
        /\ exc \notin {"none", "FormularioDuplicadoError"} => ~Did("append", "ok")

\* ---------------------------------------------------------------- C36
\* the external call a step makes for the message: mark_as_read(message_id)
\* is one call, whichever branch makes it; the labels added and the
\* notifications sent by the three branches differ in their arguments
CallOf(step) ==
    IF step \in {"markread", "dup_markread", "err_markread"} THEN "mark_as_read" ELSE step

\* C36: within a run no external call that failed for a message is invoked
\* again for that message: every message enters the per-message flow at most
\* once, and after a failed call no later step of the message makes that call.
C36_FailedCallNotInvokedAgain ==
    /\ \A j, k \in 1..Len(attempts) : attempts[j] = attempts[k] => j = k
    /\ \A j, k \in 1..Len(att) :
          (j < k /\ att[j][2] = "fail") => CallOf(att[k][1]) # CallOf(att[j][1])

\* ---------------------------------------------------------------- C37
\* the Submission as the assembler returned it for the current message
Created == ParseResult(attachment[message_id], "adjunto.xlsx")

\* C37: from its creation to the end of the flow of its message the
\* Submission keeps its variant, its header fields and its items, whatever
\* persist, archive, notify and label do; only archivo_original changes, and
\* only once persist and archive have both succeeded.
C37_OnlyArchiveReferenceAttached ==
    (pc \notin {"idle", "done"} /\ Did("parse", "ok")) =>
        /\ [form_data EXCEPT !.archivo_original = Created.archivo_original] = Created
        /\ form_data.archivo_original # Created.archivo_original =>
              (Did("append", "ok") /\ Did("archive", "ok"))
        /\ Did("archive", "ok") => form_data.archivo_original = "webViewLink"

\* the file of a form of two items was archived and the message labeled
C37_Witness ==
    /\ pc = "markread"
    /\ Did("archive", "ok")
    /\ Did("label", "ok")
    /\ form_data.nitems = 2
    /\ form_data.archivo_original = "webViewLink"
    /\ Len(sheet) > 1

\* ---------------------------------------------------------------- C38
FoldersNamed(name, parent) ==
    {k \in 1..Len(folders) : folders[k].name = name /\ folders[k].parent = parent}

\* the folder names and parents ensure_folder_exists is asked for
AskedFor ==
    ({DRIVE_ROOT_FOLDER, <<"2", "0", "2", "3">>, <<"2", "0", "2", "4">>, <<"0", "1">>, <<"0", "7">>}
        \X (0..Len(folders)))

\* the month folder of an archived file: month under year under the root
\* folder of the bot
MonthFolders(file) ==
    {m \in 1..Len(folders) :
        /\ folders[m].name = file.folder[3]
        /\ \E r \in FoldersNamed(file.folder[1], ROOT_FOLDER_ID) :
              folders[m].parent \in FoldersNamed(file.folder[2], r)}

\* C38: ensure_folder_exists creates a folder only when no folder of that
\* name exists under the parent and returns the existing one otherwise; so
\* after any sequence of archive operations, one after another, there is at
\* most one folder for each parent and name: one root folder, one for each
\* year and one for each month of a year, however many forms were archived.
C38_OneFolderPerParentAndName ==
    /\ \A asked \in AskedFor :
          LET ensured == ensure_folder_exists(folders, asked[1], asked[2])
          IN IF FoldersNamed(asked[1], asked[2]) # {}
             THEN /\ ensured.folders = folders
                  /\ ensured.id \in FoldersNamed(asked[1], asked[2])
             ELSE /\ Len(ensured.folders) = Len(folders) + 1
                  /\ SubSeq(ensured.folders, 1, Len(folders)) = folders
                  /\ ensured.folders[ensured.id] = [name |-> asked[1], parent |-> asked[2]]
    /\ \A j, k \in 1..Len(folders) :
          (folders[j].name = folders[k].name /\ folders[j].parent = folders[k].parent)
              => j = k
    /\ Cardinality(FoldersNamed(DRIVE_ROOT_FOLDER, ROOT_FOLDER_ID)) <= 1
    /\ \A k \in 1..Len(driveFiles) : Cardinality(MonthFolders(driveFiles[k])) = 1

\* two forms of two months of 2023 have been archived: four folders
C38_Witness ==
    /\ pc = "notify"
    /\ Len(driveFiles) = 2
    /\ driveFiles[1].folder[2] = <<"2", "0", "2", "3">>
    /\ driveFiles[2].folder[2] = <<"2", "0", "2", "3">>
    /\ driveFiles[1].folder[3] # driveFiles[2].folder[3]
    /\ Len(folders) = 4

\* ---------------------------------------------------------------- C39
\* the methods of the parser that look the variant up in FORM_TYPE_MAPPINGS
LookupMethods == {"_extract_header_data", "_extract_items_data"}

\* C39: every variant the classifier can return has an entry in
\* FORM_TYPE_MAPPINGS: the keys of FORM_TYPE_KEYWORDS and of
\* FORM_TYPE_MAPPINGS are the same set of at least three variants, so the
\* lookups of the header extraction and of the item extraction, made after a
\* successful classification, find their entry, with its three parts.
C39_ClassifiedVariantIsRegistered ==
    /\ RegisteredVariants = DOMAIN FORM_TYPE_MAPPINGS
    /\ Cardinality(DOMAIN FORM_TYPE_MAPPINGS) >= 3
    /\ parser.form_type # Unclassified => parser.form_type \in DOMAIN FORM_TYPE_MAPPINGS
    /\ \A k \in 1..Len(parser.calls) :
          parser.calls[k] \in LookupMethods =>
              /\ parser.form_type \in DOMAIN FORM_TYPE_MAPPINGS
              /\ DOMAIN FORM_TYPE_MAPPINGS[parser.form_type]
                    = {"header", "items_start_row", "items_columns"}

\* a form of each variant has gone through both lookups
C39_Witness ==
    /\ parser.pc = "returned"
    /\ parser.form_type = "COSTOS"
    /\ LookupMethods \subseteq {parser.calls[k] : k \in 1..Len(parser.calls)}
====
